---- MODULE Spec2Model ----
(***************************************************************************)
(* A model of the Jelly builder: the run_task pipeline                      *)
(* (src/jelly/orchestrator.py), the TestExecutor                            *)
(* (src/jelly/agents/test_executor.py), the MCPSidecarManager               *)
(* (src/jelly/mcp_sidecar_manager.py), capability delegation                *)
(* (src/jelly/pregnancy.py, src/jelly/capability.py), the sidecar bridge    *)
(* (src/jelly/mcp_sidecar.py) and the stdio JSON-RPC client                 *)
(* (src/jelly/mcp.py).                                                      *)
(*                                                                         *)
(* The specifications share the module's variables:                         *)
(*   Spec            one run of run_task followed by the CLI's exit         *)
(*   SpecExecutor    one TestExecutor serving a sequence of calls           *)
(*   SpecSidecars    one MCPSidecarManager serving install/launch/stop      *)
(*   SpecPregnancy   a Builder at its capability gate and the child it      *)
(*                   delegates to                                           *)
(*   SpecCapability  calls of assess_capability                             *)
(*   SpecBridge      two handler threads on one MCPBridge                   *)
(*   SpecBridgeFair  the same, with fairly scheduled handler threads        *)
(*   SpecStdio       _send_jsonrpc calls on one MCP server process          *)
(*   SpecFiles       the files of one LM response, parsed and written       *)
(*   SpecSandbox     run_tests calls and the temp directories they leave    *)
(* Each leaves the other components' variables at their initial value.      *)
(***************************************************************************)
EXTENDS Integers, Sequences, FiniteSets, TLC

VARIABLES
    \* ---- run_task (orchestrator.py) ----
    cfg,                 \* the Config fields run_task reads
    pc,                  \* position of run_task's main thread
    design,              \* state of the _design_tests_job future
    codegen,             \* state of the _generate_code_job future
    design_out,          \* value held by design_future
    code_out,            \* value held by code_future
    unavailable,         \* mcp_bootstrap.unavailable (names)
    servers_for_design,  \* bootstrap_servers_for_design
    code_files,          \* the code FileSet
    test_files,          \* the test FileSet
    mcp_plan,            \* design.mcp_test_plan (its number of steps)
    results,             \* the TestResult run_task holds
    i,                   \* loop variable of the test/iterate loop
    previous_code_files, \* code FileSet before the latest refine
    outcome,             \* "running" | "returned" | "raised"
    exit_code,           \* exit code of the `run` command, -1 while running
    calls,               \* how often each collaborator has been invoked
    disk,                \* the write_files calls made under project_dir
    hist,                \* history of the run, read only by the properties
    \* ---- TestExecutor (agents/test_executor.py) ----
    exec_test_files,          \* the test FileSet handed to run_all (its paths)
    exec_plan,                \* the MCPTestPlan handed to run_all, or NoPlan
    sidecar_manager,          \* self.sidecar_manager: "set" or "None"
    _quarantined_mcp_steps,   \* step keys that failed once
    _quarantined_mcp_servers, \* server names that failed once
    tool_calls,               \* tools/call requests issued, per step key
    exec_results,             \* the result of the latest call
    exec_rounds,              \* calls served by this executor
    exec_hist,                \* history of the calls, read only by the properties
    \* ---- MCPSidecarManager (mcp_sidecar_manager.py) ----
    side_cfg,                 \* the Config fields the manager reads
    _managed,                 \* name -> ManagedSidecar
    _used_ports,
    failed_servers,
    failed_install_servers,
    failed_install_packages,
    installed_servers,
    reused_servers,
    listeners,                \* port -> what is bound to it on the host
    install_runs,             \* install commands run, per server name
    side_calls,               \* calls served by this manager
    side_hist,                \* history of the calls, read only by the properties
    \* ---- capability delegation (pregnancy.py, main.py) ----
    pregnancy_max_depth,      \* Config.pregnancy_max_depth
    builders,                 \* the chain of Builder processes, parent first
    preg_hist,                \* the latest delegate_to_child_builder call
    \* ---- capability gate (capability.py) ----
    cap_config,               \* Config: capability_threshold, require_mcp_baseline
    cap_hist,                 \* the latest assess_capability call
    \* ---- sidecar bridge (mcp_sidecar.py) ----
    _lock,                    \* MCPBridge._lock: the handler that holds it, or "free"
    handlers,                 \* the request-handler threads of the HTTP server
    proc_stdin,               \* requests written to the wrapped process, unread
    proc_stdout,              \* messages the wrapped process wrote, unread
    posts,                    \* number of POST /mcp requests received
    proc_exited,              \* the wrapped process has exited (poll() is not None)
    \* ---- stdio JSON-RPC client (mcp.py) ----
    _next_id,                 \* the module's request counter
    pending,                  \* the _send_jsonrpc call in progress, if any
    server_stdin,             \* requests the MCP server has not read yet
    server_stdout,            \* messages of the MCP server the client has not read
    stdio_hist,               \* ids sent, the kinds of message skipped, the call's end
    \* ---- files of an LM response (programmer.py, test_designer.py, utils.py) ----
    extracted,                \* the FileSet parsed from the response: kind and keys
    persisted,                \* destinations write_files wrote, resolved
    \* ---- the sandbox of run_tests (sandbox/runner.py) ----
    tmp_dirs,                 \* per run_tests call: does its temp directory exist
    sandbox_hist              \* the latest run_tests call

orchVars == << cfg, pc, design, codegen, design_out, code_out, unavailable,
               servers_for_design, code_files, test_files, mcp_plan, results,
               i, previous_code_files, outcome, exit_code, calls, disk,
               hist >>

execVars == << exec_test_files, exec_plan, sidecar_manager,
               _quarantined_mcp_steps, _quarantined_mcp_servers, tool_calls,
               exec_results, exec_rounds, exec_hist >>

sideVars == << side_cfg, _managed, _used_ports, failed_servers,
               failed_install_servers, failed_install_packages,
               installed_servers, reused_servers, listeners, install_runs,
               side_calls, side_hist >>

pregVars == << pregnancy_max_depth, builders, preg_hist >>

capVars == << cap_config, cap_hist >>

bridgeVars == << _lock, handlers, proc_stdin, proc_stdout, posts,
                proc_exited >>

stdioVars == << _next_id, pending, server_stdin, server_stdout, stdio_hist >>

fileVars == << extracted, persisted >>

sandboxVars == << tmp_dirs, sandbox_hist >>

vars ==
    << orchVars, execVars, sideVars, pregVars, capVars, bridgeVars, stdioVars,
       fileVars, sandboxVars >>

\* what the steps of one component leave alone
exceptOrch ==
    << execVars, sideVars, pregVars, capVars, bridgeVars, stdioVars,
       fileVars, sandboxVars >>
exceptExec ==
    << orchVars, sideVars, pregVars, capVars, bridgeVars, stdioVars,
       fileVars, sandboxVars >>
exceptSide ==
    << orchVars, execVars, pregVars, capVars, bridgeVars, stdioVars,
       fileVars, sandboxVars >>
exceptPreg ==
    << orchVars, execVars, sideVars, capVars, bridgeVars, stdioVars,
       fileVars, sandboxVars >>
exceptCap ==
    << orchVars, execVars, sideVars, pregVars, bridgeVars, stdioVars,
       fileVars, sandboxVars >>
exceptBridge ==
    << orchVars, execVars, sideVars, pregVars, capVars, stdioVars,
       fileVars, sandboxVars >>
exceptStdio ==
    << orchVars, execVars, sideVars, pregVars, capVars, bridgeVars,
       fileVars, sandboxVars >>
exceptFiles ==
    << orchVars, execVars, sideVars, pregVars, capVars, bridgeVars, stdioVars,
       sandboxVars >>
exceptSandbox ==
    << orchVars, execVars, sideVars, pregVars, capVars, bridgeVars, stdioVars,
       fileVars >>

(***************************************************************************)
(* Bounds of the model.                                                     *)
(***************************************************************************)
MaxIter == 2
MaxSteps == 2
MaxRounds == 3
MaxSidecars == 2
PortSpan == 2
MaxCalls == 3
MaxDepth == 2
MaxPosts == 3
MaxPending == 2
MaxRequests == 3

(***************************************************************************)
(* Strings.  A Python string is modelled by its characters; Chars gives    *)
(* the spelling of every string value that occurs in a failure record.      *)
(***************************************************************************)
Chars(s) ==
    CASE s = "" -> << >>
      [] s = "AssertionError" -> <<"A","s","s","e","r","t","i","o","n","E","r","r","o","r">>
      [] s = "ImportError" -> <<"I","m","p","o","r","t","E","r","r","o","r">>
      [] s = "Error" -> <<"E","r","r","o","r">>
      [] s = "RuntimeError" -> <<"R","u","n","t","i","m","e","E","r","r","o","r">>
      [] s = "No module named calc" -> <<"N","o"," ","m","o","d","u","l","e"," ","n","a","m","e","d"," ","c","a","l","c">>
      [] s = "assert 1 == 2" -> <<"a","s","s","e","r","t"," ","1"," ","=","="," ","2">>
      [] s = "boom" -> <<"b","o","o","m">>
      [] s = "refused" -> <<"r","e","f","u","s","e","d">>
      [] s = "test_add" -> <<"t","e","s","t","_","a","d","d">>
      [] s = "list files" -> <<"l","i","s","t"," ","f","i","l","e","s">>
      [] s = "http://127.0.0.1:7700/mcp" -> <<"h","t","t","p",":","/","/","1","2","7",".","0",".","0",".","1",":","7","7","0","0","/","m","c","p">>
      [] s = "@mcp/web" -> <<"@","m","c","p","/","w","e","b">>
      [] s = "calc.py" -> <<"c","a","l","c",".","p","y">>
      [] s = "Calc.py util.py" -> <<"C","a","l","c",".","p","y"," ","u","t","i","l",".","p","y">>

UpperCase == <<"A","B","C","D","E","F","G","H","I","J","K","L","M",
               "N","O","P","Q","R","S","T","U","V","W","X","Y","Z">>
LowerCase == <<"a","b","c","d","e","f","g","h","i","j","k","l","m",
               "n","o","p","q","r","s","t","u","v","w","x","y","z">>

\* str.lower(), character by character
Lower(cs) ==
    [k \in 1..Len(cs) |->
        IF \E u \in 1..Len(UpperCase) : UpperCase[u] = cs[k]
        THEN LowerCase[CHOOSE u \in 1..Len(UpperCase) : UpperCase[u] = cs[k]]
        ELSE cs[k]]

\* str.strip(): drop leading and trailing blanks
Strip(cs) ==
    LET keep == {k \in 1..Len(cs) : cs[k] # " "}
    IN  IF keep = {} THEN << >>
        ELSE LET lo == CHOOSE k \in keep : \A m \in keep : k <= m
                 hi == CHOOSE k \in keep : \A m \in keep : k >= m
             IN  SubSeq(cs, lo, hi)

\* `fragment in text`
Contains(fragment, text) ==
    \E k \in 0..(Len(text) - Len(fragment)) :
        SubSeq(text, k + 1, k + Len(fragment)) = fragment

_ADAPT_RELEVANT_ERROR_TYPES ==
    { <<"i","m","p","o","r","t","e","r","r","o","r">>,
      <<"m","o","d","u","l","e","n","o","t","f","o","u","n","d","e","r","r","o","r">>,
      <<"n","a","m","e","e","r","r","o","r">>,
      <<"a","t","t","r","i","b","u","t","e","e","r","r","o","r">>,
      <<"s","y","n","t","a","x","e","r","r","o","r">>,
      <<"i","n","d","e","n","t","a","t","i","o","n","e","r","r","o","r">> }

_ADAPT_RELEVANT_TEXT_FRAGMENTS ==
    { <<"n","o"," ","m","o","d","u","l","e"," ","n","a","m","e","d">>,
      <<"c","a","n","n","o","t"," ","i","m","p","o","r","t"," ","n","a","m","e">>,
      <<"i","m","p","o","r","t","e","r","r","o","r">>,
      <<"n","a","m","e","e","r","r","o","r">>,
      <<"a","t","t","r","i","b","u","t","e","e","r","r","o","r">>,
      <<"h","a","s"," ","n","o"," ","a","t","t","r","i","b","u","t","e">>,
      <<"i","s"," ","n","o","t"," ","d","e","f","i","n","e","d">>,
      <<"f","o","u","n","d"," ","n","o"," ","c","o","l","l","e","c","t","o","r","s">>,
      <<"f","i","x","t","u","r","e">>,
      <<"s","y","n","t","a","x","e","r","r","o","r">>,
      <<"i","n","d","e","n","t","a","t","i","o","n","e","r","r","o","r">> }

(***************************************************************************)
(* TestResult and Failure records.                                          *)
(***************************************************************************)
Failure(name, type, message) ==
    [test_name |-> name, error_type |-> type, error_message |-> message,
     traceback |-> ""]

\* _empty_results(): the neutral result of a half that ran nothing
_empty_results ==
    [all_passed |-> TRUE, total_tests |-> 0, passed |-> 0, failed |-> 0,
     failure_details |-> << >>]

\* `results: dict = {}` before the first iteration; .get("all_passed") is falsy
NoResults ==
    [all_passed |-> FALSE, total_tests |-> 0, passed |-> 0, failed |-> 0,
     failure_details |-> << >>]

(***************************************************************************)
(* FileSets.  A FileSet is its set of paths and a revision that stands for  *)
(* the contents: a call that rewrites contents gives a fresh revision.      *)
(***************************************************************************)
CodePaths == {"calc.py", "util.py"}
TestPaths == {"test_calc.py"}

\* the sets of paths a parsed LM response can name, per call
GenerateResponses == { {}, {"calc.py"} }
RefineResponses == { {}, {"calc.py"}, {"util.py"} }
TestResponses == SUBSET TestPaths

FileSet(paths, rev) == [paths |-> paths, rev |-> rev]
NoFiles == FileSet({}, 0)

\* variant: the parsed files are returned as they are
Backfill_None(parsed, previous) == parsed

\* `for fname, content in previous.items(): if fname not in parsed:
\* parsed[fname] = content`, on dicts from file name to content
Backfill(parsed, previous) ==
    [fname \in DOMAIN parsed \cup DOMAIN previous |->
        IF fname \in DOMAIN parsed THEN parsed[fname] ELSE previous[fname]]

\* the dict of a FileSet: every file holds the contents of its revision
Dict(paths, rev) == [fname \in paths |-> rev]

\* Programmer.refine: the parsed response, backfilled with every previous
\* file the response does not name
refine(previous_code, response, iteration) ==
    LET result == Backfill(Dict(response, iteration),
                           Dict(previous_code.paths, previous_code.rev))
    IN  IF \A fname \in DOMAIN result : result[fname] = previous_code.rev
        THEN FileSet(DOMAIN result, previous_code.rev)
        ELSE FileSet(DOMAIN result, iteration)

\* TestDesigner.adapt_tests: an empty parse returns test_files itself, else
\* the adapted files backfilled with the originals
adapt_tests(tests, response, stamp) ==
    IF response = {} THEN tests
    ELSE FileSet(DOMAIN Backfill(Dict(response, stamp),
                                 Dict(tests.paths, tests.rev)), stamp)

(***************************************************************************)
(* _should_readapt_tests and its helpers.                                   *)
(***************************************************************************)
_code_module_structure_changed(previous, current) ==
    previous.paths # current.paths

_failure_requires_test_adaptation(failure) ==
    LET error_type == Lower(Strip(Chars(failure.error_type)))
        merged == Lower(Chars(failure.test_name) \o <<" ">>
                        \o Chars(failure.error_message) \o <<" ">>
                        \o Chars(failure.traceback))
    IN  \/ error_type \in _ADAPT_RELEVANT_ERROR_TYPES
        \/ \E fragment \in _ADAPT_RELEVANT_TEXT_FRAGMENTS :
               Contains(fragment, merged)

\* variant: the FileSet diff is not looked at
_should_readapt_tests_FailuresOnly(res, previous, current) ==
    \E k \in 1..Len(res.failure_details) :
        _failure_requires_test_adaptation(res.failure_details[k])

_should_readapt_tests(res, previous, current) ==
    \/ _code_module_structure_changed(previous, current)
    \/ \E k \in 1..Len(res.failure_details) :
           _failure_requires_test_adaptation(res.failure_details[k])

(***************************************************************************)
(* Results the orchestrator can be handed.                                  *)
(***************************************************************************)
\* variant: one failure per unavailable server
_mcp_bootstrap_failure_results_PerServer(unavail) ==
    [all_passed |-> FALSE, total_tests |-> Cardinality(unavail), passed |-> 0,
     failed |-> Cardinality(unavail),
     failure_details |->
         [k \in 1..Cardinality(unavail) |->
             Failure("(mcp bootstrap)", "MCPBootstrapUnavailable", "")]]

\* _mcp_bootstrap_failure_results
_mcp_bootstrap_failure_results(unavail) ==
    [all_passed |-> FALSE, total_tests |-> 1, passed |-> 0, failed |-> 1,
     failure_details |->
         << Failure("(mcp bootstrap)", "MCPBootstrapUnavailable", "") >>]

\* pregnancy._failure_result
_failure_result(error_type) ==
    [all_passed |-> FALSE, total_tests |-> 1, passed |-> 0, failed |-> 1,
     failure_details |-> << Failure("pregnancy_delegation", error_type, "") >>]

\* what delegate_to_child_builder can return
ChildResults ==
    { _failure_result(t) : t \in {"PregnancyDepthExceeded",
                                  "RepeatedCapabilitySignature",
                                  "PregnancyTimeout", "ChildBuilderFailed"} }
    \cup { _empty_results }

\* failures a unit-test run can report
UnitFailures ==
    { Failure("test_add", "AssertionError", "assert 1 == 2"),
      Failure("test_add", "ImportError", "boom"),
      Failure("test_add", "Error", "No module named calc") }

\* failures an MCP step can report
McpFailures == { Failure("list files", "RuntimeError", "refused") }

FailedResult(failure) ==
    [all_passed |-> FALSE, total_tests |-> 2, passed |-> 1, failed |-> 1,
     failure_details |-> << failure >>]

PassedResult ==
    [all_passed |-> TRUE, total_tests |-> 2, passed |-> 2, failed |-> 0,
     failure_details |-> << >>]

\* TestExecutor.run_all as run_task sees it: the results it can return for
\* a test FileSet and a plan
RunAllResults(tests, plan_steps) ==
    IF tests.paths = {} /\ plan_steps = 0
    THEN { _empty_results }
    ELSE { PassedResult }
         \cup (IF tests.paths # {}
               THEN { FailedResult(f) : f \in UnitFailures } ELSE {})
         \cup (IF plan_steps > 0
               THEN { FailedResult(f) : f \in McpFailures } ELSE {})

(***************************************************************************)
(* run_task: the pipeline of orchestrator.py, one action per step.          *)
(***************************************************************************)
Behaviors == {"fail_closed", "warn_and_continue", "unit_only_fallback"}
PresetServers == {"filesystem", "browser"}
Collaborators == {"assess_capability", "delegate_to_child_builder",
                  "bootstrap_servers", "design_tests", "generate",
                  "adapt_tests", "run_all", "refine", "write_files",
                  "stop_all"}

Called(op) == calls' = [calls EXCEPT ![op] = @ + 1]

\* a future that holds no design
NoDesign == [tests |-> NoFiles, steps |-> 0, dynamic |-> {}]

NoHist ==
    [passed_at |-> 0,           \* ordinal of the first passing run_all
     adapts_at_refine |-> 0,    \* adapt_tests calls made before the last refine
     tests_at_refine |-> NoFiles,
     adapt_code |-> NoFiles,    \* code FileSet handed to the last adapt_tests
     exec_code |-> NoFiles,     \* FileSets of the last run_all
     exec_tests |-> NoFiles,
     exec_result |-> NoResults, \* what the last run_all returned
     both_running |-> FALSE,    \* the two jobs were running at the same time
     error_in |-> "none",       \* the non-LM step that met an unrecoverable error
     plan_dynamic |-> {},       \* dynamic sidecars among the servers of mcp_plan
     sidecars_live |-> FALSE,   \* a sidecar process of the manager is running
     progress_step |-> -1,      \* highest step number of a delivered event
     progress_late |-> FALSE]   \* an event came after one of a higher step

\* _emit called once for each element of `steps`, in order, each time with
\* that step number: the callback (or the console) gets the event at once
Emitted(h, steps) ==
    LET Highest(k) ==
            LET before == {h.progress_step} \cup { steps[j] : j \in 1..k }
            IN  CHOOSE n \in before : \A other \in before : other <= n
    IN  [h EXCEPT
           !.progress_step = Highest(Len(steps)),
           !.progress_late =
               @ \/ \E k \in 1..Len(steps) : steps[k] < Highest(k - 1)]

\* the locals of run_task before its first statement
OrchFresh ==
    /\ design = "idle"
    /\ codegen = "idle"
    /\ design_out = NoDesign
    /\ code_out = NoFiles
    /\ unavailable = {}
    /\ servers_for_design = PresetServers
    /\ code_files = NoFiles
    /\ test_files = NoFiles
    /\ mcp_plan = 0
    /\ results = NoResults
    /\ i = 0
    /\ previous_code_files = NoFiles
    /\ outcome = "running"
    /\ exit_code = -1
    /\ calls = [op \in Collaborators |-> 0]
    /\ disk = << >>
    /\ hist = NoHist

OrchInit ==
    /\ cfg \in [enable_step2_pregnancy : BOOLEAN,
                mcp_bootstrap_enabled : BOOLEAN,
                mcp_unavailable_behavior : Behaviors,
                mcp_dynamic_sidecars_enabled : BOOLEAN,
                max_fix_iterations : 1..MaxIter]
    /\ pc = IF cfg.enable_step2_pregnancy THEN "capability" ELSE "bootstrap"
    /\ OrchFresh

\* no run_task in progress
OrchIdle ==
    /\ cfg = [enable_step2_pregnancy |-> FALSE, mcp_bootstrap_enabled |-> FALSE,
              mcp_unavailable_behavior |-> "fail_closed",
              mcp_dynamic_sidecars_enabled |-> FALSE,
              max_fix_iterations |-> 1]
    /\ pc = "idle"
    /\ OrchFresh

\* `return res`
Return(res) ==
    /\ results' = res
    /\ outcome' = "returned"
    /\ pc' = "done"

\* an exception leaves run_task
Raise ==
    /\ outcome' = "raised"
    /\ pc' = "done"

\* Step 0: assess_capability decides capable or not
AssessCapability ==
    /\ pc = "capability"
    /\ Called("assess_capability")
    /\ \E capable \in BOOLEAN :
           pc' = IF capable THEN "bootstrap" ELSE "delegate"
    /\ hist' = Emitted(hist, << 0, 0 >>)
    /\ UNCHANGED << cfg, design, codegen, design_out, code_out, unavailable,
                    servers_for_design, code_files, test_files, mcp_plan,
                    results, i, previous_code_files, outcome, exit_code, disk >>

\* variant: the child's result is returned at once
DelegateToChild_NoStopAll ==
    /\ pc = "delegate"
    /\ \E child_results \in ChildResults :
           /\ Called("delegate_to_child_builder")
           /\ Return(child_results)
    /\ UNCHANGED << cfg, design, codegen, design_out, code_out, unavailable,
                    servers_for_design, code_files, test_files, mcp_plan,
                    i, previous_code_files, exit_code, disk, hist >>

\* Step 0, not capable: the child's result is returned after stop_all; an
\* error of the workspace copy or of the spawn leaves
\* delegate_to_child_builder, and with it run_task, as an exception
DelegateToChild ==
    /\ pc = "delegate"
    /\ \/ \E child_results \in ChildResults :
              /\ calls' = [calls EXCEPT !["delegate_to_child_builder"] = @ + 1,
                                        !["stop_all"] = @ + 1]
              /\ Return(child_results)
              /\ hist' = Emitted(hist, << 0, 0 >>)
       \/ /\ Called("delegate_to_child_builder")
          /\ Raise
          /\ hist' = Emitted([hist EXCEPT !.error_in = "child_builder"],
                             << 0 >>)
          /\ UNCHANGED results
    /\ UNCHANGED << cfg, design, codegen, design_out, code_out, unavailable,
                    servers_for_design, code_files, test_files, mcp_plan,
                    i, previous_code_files, exit_code, disk >>

\* MCP bootstrap and the mcp_unavailable_behavior policy
McpBootstrap ==
    /\ pc = "bootstrap"
    /\ IF ~cfg.mcp_bootstrap_enabled
       THEN /\ pc' = "submit"
            /\ UNCHANGED << unavailable, servers_for_design, results,
                            outcome, calls, hist >>
       ELSE \E unavail \in SUBSET PresetServers :
            /\ unavailable' = unavail
            /\ IF unavail # {} /\ cfg.mcp_unavailable_behavior = "fail_closed"
               THEN /\ calls' = [calls EXCEPT !["bootstrap_servers"] = @ + 1,
                                              !["stop_all"] = @ + 1]
                    /\ Return(_mcp_bootstrap_failure_results(unavail))
                    /\ hist' = Emitted([hist EXCEPT !.error_in = "bootstrap"],
                                       << 1, 1, 1 >>)
                    /\ UNCHANGED servers_for_design
               ELSE /\ Called("bootstrap_servers")
                    /\ servers_for_design' =
                           IF unavail # {}
                              /\ cfg.mcp_unavailable_behavior = "unit_only_fallback"
                           THEN {}
                           ELSE PresetServers \ unavail
                    /\ pc' = "submit"
                    /\ hist' = Emitted(hist, << 1, 1 >>)
                    /\ UNCHANGED << results, outcome >>
    /\ UNCHANGED << cfg, design, codegen, design_out, code_out, code_files,
                    test_files, mcp_plan, i, previous_code_files, exit_code,
                    disk >>

PlanSteps == {0, 1}

\* Steps 1 and 2: the "running" events of step 1 and then of step 2, then
\* pool.submit(_design_tests_job); pool.submit(_generate_code_job)
SubmitJobs ==
    /\ pc = "submit"
    /\ design' = "queued"
    /\ codegen' = "queued"
    /\ pc' = "join_design"
    /\ hist' = Emitted(hist, << 1, 1, 2, 2 >>)
    /\ UNCHANGED << cfg, design_out, code_out, unavailable, servers_for_design,
                    code_files, test_files, mcp_plan, results, i,
                    previous_code_files, outcome, exit_code, calls, disk >>

\* a pool worker picks up _design_tests_job
DesignStart ==
    /\ design = "queued"
    /\ design' = "running"
    /\ Called("design_tests")
    /\ hist' = [hist EXCEPT !.both_running = @ \/ codegen = "running"]
    /\ UNCHANGED << cfg, pc, codegen, design_out, code_out, unavailable,
                    servers_for_design, code_files, test_files, mcp_plan,
                    results, i, previous_code_files, outcome, exit_code, disk >>

\* the sidecars _select_dynamic_sidecars can come back with
DynamicSidecars == {"github"}

\* TestDesigner.design_tests up to _generate_test_plan: the servers the plan
\* may use.  preinstalled is the registry of the bootstrap, which counts
\* only if given (`preinstalled_servers is None` otherwise); beyond_unit
\* says whether the analysis names a need other than unit tests; dynamic
\* and selected are the answers of the sidecar and tool selection
design_servers(given, preinstalled, beyond_unit, dynamic, selected) ==
    LET dynamic_servers ==
            IF cfg.mcp_dynamic_sidecars_enabled /\ beyond_unit THEN dynamic
            ELSE {}
    IN  IF ~given
        THEN selected \cup dynamic_servers
        ELSE (IF beyond_unit THEN preinstalled ELSE {}) \cup dynamic_servers

\* _generate_test_plan: without servers the plan has no steps; otherwise it
\* keeps the steps of the answer that name one of the servers
plan_steps(installed) ==
    IF installed = {} THEN {0} ELSE PlanSteps

\* test_designer.design_tests returns a design or raises
DesignFinish ==
    /\ design = "running"
    /\ \/ \E paths \in TestResponses, beyond_unit \in BOOLEAN,
             dynamic \in SUBSET DynamicSidecars, selected \in SUBSET PresetServers :
          LET servers == design_servers(
                             cfg.mcp_bootstrap_enabled, servers_for_design,
                             beyond_unit, dynamic, selected)
          IN  \E steps \in plan_steps(servers) :
                  /\ design' = "done"
                  /\ design_out' = [tests |-> FileSet(paths, 0),
                                    steps |-> steps,
                                    dynamic |-> servers \cap DynamicSidecars]
       \/ /\ design' = "failed"
          /\ UNCHANGED design_out
    /\ UNCHANGED << cfg, pc, codegen, code_out, unavailable,
                    servers_for_design, code_files, test_files, mcp_plan,
                    results, i, previous_code_files, outcome, exit_code, calls,
                    disk, hist >>

\* a pool worker picks up _generate_code_job
CodeStart ==
    /\ codegen = "queued"
    /\ codegen' = "running"
    /\ Called("generate")
    /\ hist' = [hist EXCEPT !.both_running = @ \/ design = "running"]
    /\ UNCHANGED << cfg, pc, design, design_out, code_out, unavailable,
                    servers_for_design, code_files, test_files, mcp_plan,
                    results, i, previous_code_files, outcome, exit_code, disk >>

\* programmer.generate returns a code FileSet or raises
CodeFinish ==
    /\ codegen = "running"
    /\ \/ \E paths \in GenerateResponses :
              /\ codegen' = "done"
              /\ code_out' = FileSet(paths, 0)
       \/ /\ codegen' = "failed"
          /\ UNCHANGED code_out
    /\ UNCHANGED << cfg, pc, design, design_out, unavailable,
                    servers_for_design, code_files, test_files, mcp_plan,
                    results, i, previous_code_files, outcome, exit_code, calls,
                    disk, hist >>

\* design = design_future.result()
JoinDesign ==
    /\ pc = "join_design"
    /\ design \in {"done", "failed"}
    /\ pc' = IF design = "done" THEN "join_code" ELSE "pool_exit"
    /\ UNCHANGED << cfg, design, codegen, design_out, code_out, unavailable,
                    servers_for_design, code_files, test_files, mcp_plan,
                    results, i, previous_code_files, outcome, exit_code, calls,
                    disk, hist >>

\* variant: the code future is read without waiting for it
JoinCode_NoWait ==
    /\ pc = "join_code"
    /\ IF codegen # "failed"
       THEN /\ code_files' = code_out
            /\ test_files' = design_out.tests
            /\ mcp_plan' = design_out.steps
            /\ hist' = Emitted([hist EXCEPT
                                    !.plan_dynamic = design_out.dynamic],
                               << 1, 1, 2 >>)
            /\ design_out' = NoDesign
            /\ code_out' = NoFiles
            /\ pc' = "adapt"
       ELSE /\ pc' = "pool_exit"
            /\ UNCHANGED << code_files, test_files, mcp_plan, design_out,
                            code_out, hist >>
    /\ UNCHANGED << cfg, design, codegen, unavailable,
                    servers_for_design, results, i, previous_code_files,
                    outcome, exit_code, calls, disk >>

\* code_files = code_future.result(), then the pool is left and the plan
\* event and the "complete" event of step 1 and the "complete" event of
\* step 2 are emitted
JoinCode ==
    /\ pc = "join_code"
    /\ codegen \in {"done", "failed"}
    /\ IF codegen = "done"
       THEN /\ code_files' = code_out
            /\ test_files' = design_out.tests
            /\ mcp_plan' = design_out.steps
            /\ hist' = Emitted([hist EXCEPT
                                    !.plan_dynamic = design_out.dynamic],
                               << 1, 1, 2 >>)
            /\ design_out' = NoDesign
            /\ code_out' = NoFiles
            /\ pc' = "adapt"
       ELSE /\ pc' = "pool_exit"
            /\ UNCHANGED << code_files, test_files, mcp_plan, design_out,
                            code_out, hist >>
    /\ UNCHANGED << cfg, design, codegen, unavailable,
                    servers_for_design, results, i, previous_code_files,
                    outcome, exit_code, calls, disk >>

\* a job raised: the pool's exit waits for both jobs, then the exception
\* leaves run_task
PoolExit ==
    /\ pc = "pool_exit"
    /\ design \in {"done", "failed"}
    /\ codegen \in {"done", "failed"}
    /\ Raise
    /\ UNCHANGED << cfg, design, codegen, design_out, code_out, unavailable,
                    servers_for_design, code_files, test_files, mcp_plan,
                    results, i, previous_code_files, exit_code, calls, disk,
                    hist >>

\* Step 3: test_designer.adapt_tests(code_files, test_files), or the LM
\* call raises
AdaptTests ==
    /\ pc = "adapt"
    /\ Called("adapt_tests")
    /\ \/ \E response \in TestResponses :
              /\ test_files' = adapt_tests(test_files, response,
                                           calls["adapt_tests"] + 1)
              /\ hist' = Emitted([hist EXCEPT !.adapt_code = code_files],
                                 << 3, 3, 3 >>)
              /\ i' = 1
              /\ pc' = "iterate"
              /\ UNCHANGED outcome
       \/ /\ Raise
          /\ hist' = Emitted(hist, << 3, 3 >>)
          /\ UNCHANGED << test_files, i >>
    /\ UNCHANGED << cfg, design, codegen, design_out, code_out, unavailable,
                    servers_for_design, code_files, mcp_plan, results,
                    previous_code_files, exit_code, disk >>

\* variant: the last iteration refines too
AfterIteration_OffByOne(res) ==
    IF res.all_passed THEN "write"
    ELSE IF i <= cfg.max_fix_iterations THEN "refine"
    ELSE "write"

\* where the loop goes after an iteration's result: `break` on all_passed,
\* refine when i < max_fix_iterations, else the loop is over
AfterIteration(res) ==
    IF res.all_passed THEN "write"
    ELSE IF i < cfg.max_fix_iterations THEN "refine"
    ELSE "write"

\* variant: the loop is left after a refine
NextIteration_LeavesLoop == "write"

\* `for i in range(1, config.max_fix_iterations + 1)`, reached from the end
\* of the loop body: the next iteration, or the end of the loop
NextIteration ==
    IF i < cfg.max_fix_iterations THEN "iterate" ELSE "write"

\* run_mcp_tests provisions a dynamic sidecar of the plan lazily through
\* sidecar_manager.ensure_running, which can fail; its finally block stops
\* the clients only (stop_server_for_transport returns at once for http_sse),
\* so a launched sidecar process stays with the manager
SidecarsAfterRunAll ==
    IF mcp_plan > 0 /\ hist.plan_dynamic # {}
    THEN {hist.sidecars_live, TRUE}
    ELSE {hist.sidecars_live}

\* Step 4: results = executor.run_all(...); break on all_passed; on the last
\* iteration the loop ends as well.  run_tests catches TimeoutExpired only:
\* an OSError while the sandbox is written or pytest is spawned leaves
\* run_all, and with it run_task, as an exception
RunAll ==
    /\ pc = "iterate"
    /\ Called("run_all")
    /\ \/ \E res \in RunAllResults(test_files, mcp_plan),
             live \in SidecarsAfterRunAll :
              /\ results' = res
              /\ hist' = Emitted([hist EXCEPT
                     !.passed_at = IF res.all_passed /\ @ = 0
                                   THEN calls["run_all"] + 1 ELSE @,
                     !.exec_code = code_files,
                     !.exec_tests = test_files,
                     !.exec_result = res,
                     !.sidecars_live = live], << 4, 4 >>)
              /\ pc' = AfterIteration(res)
              /\ UNCHANGED outcome
       \/ /\ test_files.paths # {}
          /\ Raise
          /\ hist' = Emitted([hist EXCEPT !.error_in = "sandbox",
                                          !.exec_code = code_files,
                                          !.exec_tests = test_files],
                             << 4 >>)
          /\ UNCHANGED results
    /\ UNCHANGED << cfg, design, codegen, design_out, code_out, unavailable,
                    servers_for_design, code_files, test_files, mcp_plan, i,
                    previous_code_files, exit_code, disk >>

\* code_files = programmer.refine(requirements, code_files, feedback, i),
\* or the LM call raises
Refine ==
    /\ pc = "refine"
    /\ Called("refine")
    /\ \/ \E response \in RefineResponses :
              /\ previous_code_files' = code_files
              /\ code_files' = refine(code_files, response, i)
              /\ hist' = Emitted([hist EXCEPT
                     !.adapts_at_refine = calls["adapt_tests"],
                     !.tests_at_refine = test_files], << 4 >>)
              /\ pc' = "readapt"
              /\ UNCHANGED outcome
       \/ /\ Raise
          /\ hist' = Emitted(hist, << 4 >>)
          /\ UNCHANGED << previous_code_files, code_files >>
    /\ UNCHANGED << cfg, design, codegen, design_out, code_out, unavailable,
                    servers_for_design, test_files, mcp_plan, results, i,
                    exit_code, disk >>

\* should_adapt: adapt_tests on the refined code, or skip; then the next
\* iteration
Readapt ==
    /\ pc = "readapt"
    /\ IF _should_readapt_tests(results, previous_code_files, code_files)
       THEN /\ Called("adapt_tests")
            /\ \/ \E response \in TestResponses :
                      /\ test_files' = adapt_tests(test_files, response,
                                                   calls["adapt_tests"] + 1)
                      /\ hist' = Emitted([hist EXCEPT
                                            !.adapt_code = code_files],
                                         << 4, 4 >>)
                      /\ i' = i + 1
                      /\ pc' = NextIteration
                      /\ UNCHANGED outcome
               \/ /\ Raise
                  /\ hist' = Emitted(hist, << 4 >>)
                  /\ UNCHANGED << test_files, i >>
       ELSE /\ i' = i + 1
            /\ pc' = NextIteration
            /\ hist' = Emitted(hist, << 4 >>)
            /\ UNCHANGED << test_files, outcome, calls >>
    /\ UNCHANGED << cfg, design, codegen, design_out, code_out, unavailable,
                    servers_for_design, code_files, mcp_plan, results,
                    previous_code_files, exit_code, disk >>

\* variant: the FileSets are also written after each iteration's result
WriteOutputs_InLoop ==
    /\ pc \in {"write", "refine"}
    /\ pc = "refine" => disk = << >>
    /\ Called("write_files")
    /\ disk' = disk \o << [dir |-> "src", files |-> code_files],
                          [dir |-> "tests", files |-> test_files] >>
    /\ pc' = IF pc = "write" THEN "finish" ELSE pc
    /\ UNCHANGED << cfg, design, codegen, design_out, code_out, unavailable,
                    servers_for_design, code_files, test_files, mcp_plan,
                    results, i, previous_code_files, outcome, exit_code, hist >>

\* Step 5: write_files(project_dir/src, code_files);
\* write_files(project_dir/tests, test_files)
WriteOutputs ==
    /\ pc = "write"
    /\ Called("write_files")
    /\ disk' = disk \o << [dir |-> "src", files |-> code_files],
                          [dir |-> "tests", files |-> test_files] >>
    /\ pc' = "finish"
    /\ hist' = Emitted(hist, << 5, 5, 5 >>)
    /\ UNCHANGED << cfg, design, codegen, design_out, code_out, unavailable,
                    servers_for_design, code_files, test_files, mcp_plan,
                    results, i, previous_code_files, outcome, exit_code >>

\* sidecar_manager.stop_all(); return results
Finish ==
    /\ pc = "finish"
    /\ Called("stop_all")
    /\ hist' = [hist EXCEPT !.sidecars_live = FALSE]
    /\ Return(results)
    /\ UNCHANGED << cfg, design, codegen, design_out, code_out, unavailable,
                    servers_for_design, code_files, test_files, mcp_plan, i,
                    previous_code_files, exit_code, disk >>

\* main.run: exit 1 unless run_task returned a passing result
run ==
    /\ pc = "done"
    /\ exit_code = -1
    /\ exit_code' = IF outcome = "returned" /\ results.all_passed THEN 0 ELSE 1
    /\ UNCHANGED << cfg, pc, design, codegen, design_out, code_out,
                    unavailable, servers_for_design, code_files, test_files,
                    mcp_plan, results, i, previous_code_files, outcome, calls,
                    disk, hist >>

(***************************************************************************)
(* Properties of run_task, checked under Spec.                              *)
(***************************************************************************)
N == cfg.max_fix_iterations

\* C3: every path on which run_task returns a result (child delegation,
\* bootstrap fail_closed, normal completion) has invoked stop_all on the
\* sidecar manager.
C3_StopAllBeforeReturn ==
    outcome = "returned" => calls["stop_all"] = 1

C3_Witness ==
    /\ outcome = "returned"
    /\ calls["delegate_to_child_builder"] = 1
    /\ calls["stop_all"] = 1

\* C4: design_tests and generate run as exactly two tasks that can overlap;
\* adapt_tests (and all that follows it) starts only once both have
\* completed successfully; if either raises, run_task raises and
\* adaptation, test execution and the output write never run.
C4_JoinBothJobs ==
    /\ calls["design_tests"] <= 1 /\ calls["generate"] <= 1
    /\ (pc \in {"adapt", "iterate", "refine", "readapt", "write", "finish"}
        \/ calls["adapt_tests"] > 0 \/ calls["run_all"] > 0 \/ disk # << >>)
           => design = "done" /\ codegen = "done"
    /\ (design = "failed" \/ codegen = "failed")
           => /\ outcome # "returned"
              /\ calls["adapt_tests"] = 0
              /\ calls["run_all"] = 0
              /\ calls["write_files"] = 0
              /\ pc = "done" => outcome = "raised"

C4_Witness ==
    /\ hist.both_running
    /\ pc = "adapt"

\* the predicate of C5, stated on the latest TestResult and the FileSet diff
C5_ListedTypes == {"ImportError", "ModuleNotFoundError", "NameError",
                   "AttributeError", "SyntaxError", "IndentationError"}

C5_Triggers(res, previous, current) ==
    \/ previous.paths # current.paths
    \/ \E k \in 1..Len(res.failure_details) :
           LET f == res.failure_details[k]
               text == Lower(Chars(f.test_name) \o <<" ">>
                             \o Chars(f.error_message) \o <<" ">>
                             \o Chars(f.traceback))
           IN  \/ f.error_type \in C5_ListedTypes
               \/ \E fragment \in _ADAPT_RELEVANT_TEXT_FRAGMENTS :
                      Contains(fragment, text)

C6_IterationCounts ==
    LET k == hist.passed_at
        m == IF k = 0 THEN N ELSE k
    IN  /\ calls["run_all"] <= N
        /\ calls["write_files"] <= 1
        /\ k # 0 => /\ calls["run_all"] = k
                    /\ calls["refine"] = k - 1
        /\ calls["write_files"] = 1 =>
               /\ calls["run_all"] = m
               /\ calls["refine"] = m - 1
        /\ (outcome = "returned" /\ calls["run_all"] > 0) =>
               calls["write_files"] = 1
        /\ (exit_code # -1 /\ calls["run_all"] > 0 /\ k = 0) =>
               /\ ~results.all_passed
               /\ exit_code = 1

C6_Witness ==
    /\ N = 1
    /\ exit_code = 1
    /\ outcome = "returned"
    /\ calls["run_all"] = 1
    /\ calls["refine"] = 0
    /\ calls["write_files"] = 1

\* C7: nothing is written under project_dir before the test/iterate loop
\* has ended; the only writes are those of step (5), and the delegation and
\* fail_closed paths write nothing.
C7_WritesOnlyInStep5 ==
    /\ disk # << >> =>
           /\ pc \in {"finish", "done"}
           /\ calls["write_files"] = 1
           /\ Len(disk) = 2
           /\ results.all_passed \/ calls["run_all"] = N
    /\ (calls["delegate_to_child_builder"] > 0 \/ calls["run_all"] = 0)
           => disk = << >>

C7_Witness ==
    /\ disk # << >>
    /\ calls["refine"] > 0

\* C8: under fail_closed with an unavailable bootstrap server run_task
\* returns a non-passing result with total_tests = 1, failed = 1 and
\* MCPBootstrapUnavailable as its sole failure, and neither the test
\* designer nor the programmer is ever invoked.
C8_FailClosed ==
    (unavailable # {} /\ cfg.mcp_unavailable_behavior = "fail_closed") =>
        /\ outcome = "returned"
        /\ ~results.all_passed
        /\ results.total_tests = 1
        /\ results.failed = 1
        /\ Len(results.failure_details) = 1
        /\ results.failure_details[1].error_type = "MCPBootstrapUnavailable"
        /\ calls["design_tests"] = 0 /\ calls["generate"] = 0
        /\ calls["adapt_tests"] = 0 /\ calls["refine"] = 0

C8_Witness ==
    /\ unavailable # {}
    /\ cfg.mcp_unavailable_behavior = "fail_closed"
    /\ exit_code = 1

\* C19: with mcp_unavailable_behavior = unit_only_fallback and a bootstrap
\* server unavailable, the designer is given an empty server list and the
\* plan it produces has no MCP steps
C19_UnitOnlyPlan ==
    /\ cfg.mcp_bootstrap_enabled
    /\ cfg.mcp_unavailable_behavior = "unit_only_fallback"
    /\ unavailable # {}
    => /\ servers_for_design = {}
       /\ design_out.steps = 0
       /\ mcp_plan = 0

\* C19 case: under unit_only_fallback with an unavailable server the
\* designer has returned its plan
C19_FallbackDesigned ==
    /\ cfg.mcp_bootstrap_enabled
    /\ cfg.mcp_unavailable_behavior = "unit_only_fallback"
    /\ unavailable # {}
    /\ servers_for_design = {}
    /\ design = "done"

\* C20: an unrecoverable error of a non-LM step (the sandbox, the child
\* builder, the bootstrap under fail_closed) never leaves run_task as an
\* exception: run_task returns a single-failure result after stop_all
C20_NoExceptionFromNonLmStep ==
    hist.error_in # "none" =>
        /\ outcome = "returned"
        /\ ~results.all_passed
        /\ results.failed = 1
        /\ Len(results.failure_details) = 1
        /\ calls["stop_all"] >= 1

\* C20 case: a non-LM step met an unrecoverable error and run_task has ended
C20_NonLmStepFailed ==
    /\ hist.error_in \in {"sandbox", "child_builder"}
    /\ pc = "done"
    /\ exit_code = 1

\* C21: whenever control has left run_task, by a return or by an exception,
\* no sidecar process launched by the manager is still running.  Refuted:
\* run_task has no try/finally, so an LM call that raises in refine or in
\* the re-adaptation leaves it before the one stop_all of the normal path.
C21_SidecarsStoppedOnExit ==
    pc = "done" => ~hist.sidecars_live

\* C21's case: a dynamic sidecar was launched by a run_all, and run_task
\* then ended with an exception raised by refine or by adapt_tests
C21_RaisedAfterLaunch ==
    /\ pc = "done"
    /\ outcome = "raised"
    /\ hist.error_in = "none"
    /\ calls["refine"] >= 1
    /\ calls["run_all"] >= 1
    /\ hist.plan_dynamic # {}
    /\ hist.sidecars_live
    /\ calls["stop_all"] = 0

\* C34: what refine returns holds every path of the previous code FileSet,
\* a path the response does not name with its previous content, and what
\* adapt_tests returns holds every path of the previous test FileSet; so no
\* code or test file disappears in the course of a run
C34_NoFileDisappears ==
    /\ \A previous \in SUBSET (CodePaths \cup TestPaths) :
       \A parsed \in SUBSET (CodePaths \cup TestPaths) :
           LET result == Backfill(Dict(parsed, 2), Dict(previous, 1))
           IN  \A fname \in previous :
                   /\ fname \in DOMAIN result
                   /\ fname \notin parsed => result[fname] = 1
    /\ [][ /\ code_files.paths \subseteq code_files'.paths
           /\ test_files.paths \subseteq test_files'.paths
           /\ calls'["refine"] = calls["refine"] + 1 /\ pc' = "readapt" =>
                  \E response \in RefineResponses :
                      code_files'.paths = code_files.paths \cup response ]_vars

\* C34 witness: refine and adapt_tests have returned; the code FileSet holds
\* "calc.py" and "util.py", one of which the refine response did not name,
\* and the test FileSet still holds its file
C34_Witness ==
    /\ calls["refine"] >= 1
    /\ calls["adapt_tests"] >= 1
    /\ pc \in {"readapt", "iterate", "write"}
    /\ code_files.paths = {"calc.py", "util.py"}
    /\ test_files.paths = {"test_calc.py"}

\* C38: for max_fix_iterations >= 1, the FileSets persisted in step (5)
\* are the FileSets the last run_all ran against, and the result run_task
\* returns is the result of that run_all: nothing is refined or re-adapted
\* between the last execution and the write
C38_PersistedWhatWasTested ==
    /\ calls["write_files"] > 0 =>
           /\ calls["run_all"] > 0
           /\ disk = << [dir |-> "src", files |-> hist.exec_code],
                        [dir |-> "tests", files |-> hist.exec_tests] >>
           /\ code_files = hist.exec_code
           /\ test_files = hist.exec_tests
           /\ results = hist.exec_result
    /\ pc = "write" =>
           /\ code_files = hist.exec_code
           /\ test_files = hist.exec_tests
           /\ results = hist.exec_result

\* C38 witness: run_task has returned after a failing run_all, a refine
\* that changed the code, a second run_all and the write; what is on disk
\* is the refined code the second run_all ran against
C38_Witness ==
    /\ outcome = "returned"
    /\ calls["run_all"] = 2
    /\ calls["refine"] = 1
    /\ calls["write_files"] = 1
    /\ hist.exec_code.rev = 1
    /\ disk[1].files = hist.exec_code
    /\ results = hist.exec_result

\* C35: progress events are delivered in step-number order: after an event
\* of step k, no event of a step j < k is delivered in the same run
C35_EventsInStepOrder == ~hist.progress_late

\* C35, the case it fails in: both futures have been joined; the "running"
\* events of step 2 were delivered before the jobs were submitted, the plan
\* event and the "complete" event of step 1 after the join
C35_Step1AfterStep2 ==
    /\ pc = "adapt"
    /\ hist.progress_step = 2
    /\ hist.progress_late

(***************************************************************************)
(* The TestExecutor.  One executor serves a sequence of calls on the same   *)
(* test FileSet and plan, as run_task's loop does.                          *)
(***************************************************************************)
\* MCPServer: the fields run_mcp_tests and can_lazy_provision read
MCPServer(transport, dynamic_sidecar) ==
    [transport |-> transport, dynamic_sidecar |-> dynamic_sidecar,
     endpoint |-> ""]

MCPTestStep(description, server, tool, expected) ==
    [description |-> description, server |-> server, tool |-> tool,
     expected |-> expected]

\* the servers a plan can configure, by name: one stdio server and one
\* dynamic sidecar
PlanServers ==
    [filesystem |-> MCPServer("stdio", FALSE),
     browser |-> MCPServer("http_sse", TRUE)]

\* the steps plans are made of; the last names a server no plan configures
StepPool ==
    { MCPTestStep("list files", "filesystem", "list_directory", "calc.py"),
      MCPTestStep("read file", "filesystem", "read_file", ""),
      MCPTestStep("open page", "browser", "navigate", ""),
      MCPTestStep("ping", "ghost", "ping", "") }

\* `mcp_plan = None`
NoPlan == [present |-> FALSE, servers |-> << >>, steps |-> << >>]

\* a plan configures the known servers its steps name
MCPTestPlan(steps) ==
    [present |-> TRUE,
     servers |->
         [name \in { steps[k].server : k \in 1..Len(steps) } \cap DOMAIN PlanServers
             |-> PlanServers[name]],
     steps |-> steps]

\* the plans: up to MaxSteps different steps in any order
Plans ==
    {NoPlan} \cup
    UNION { { MCPTestPlan(steps) :
                steps \in { q \in [1..n -> StepPool] :
                              \A j, k \in 1..n : j # k => q[j] # q[k] } } :
            n \in 0..MaxSteps }

\* the step lists of an LM answer to the plan prompt
PlanAnswers == UNION { [1..n -> StepPool] : n \in 0..MaxSteps }

\* variant: the steps of the answer are kept as they are
_generate_test_plan_Unfiltered(servers, answer) ==
    [present |-> TRUE,
     servers |-> [name \in servers |-> PlanServers[name]],
     steps |-> IF servers = {} THEN << >> ELSE answer]

\* TestDesigner._generate_test_plan: without servers the plan has no steps
\* ("no_available_servers"); otherwise it holds the servers it was given and
\* the steps of the answer whose server is one of them
_generate_test_plan(servers, answer) ==
    [present |-> TRUE,
     servers |-> [name \in servers |-> PlanServers[name]],
     steps |-> IF servers = {} THEN << >>
               ELSE SelectSeq(answer, LAMBDA step : step.server \in servers)]

\* the plans the test designer can produce
DesignedPlans ==
    { _generate_test_plan(servers, answer) :
          servers \in SUBSET DOMAIN PlanServers, answer \in PlanAnswers }

\* TestExecutor._step_key: description, server, tool and arguments (all steps
\* here carry no arguments)
_step_key(step) ==
    [description |-> step.description, server |-> step.server,
     tool |-> step.tool]

StepKeys == { _step_key(step) : step \in StepPool }

\* the server names steps carry
StepServers == { step.server : step \in StepPool }

\* mcp.can_lazy_provision
can_lazy_provision(server) ==
    /\ server.transport = "http_sse"
    /\ server.dynamic_sidecar
    /\ Strip(Chars(server.endpoint)) = << >>

\* what one pytest subprocess can do: time out, or exit with a return code
\* (0, or 1 for any non-zero code) after reporting passed and failed counts
\* in its summary line; failed_lines counts the "FAILED name - message"
\* lines of its output
PytestRuns ==
    { [timeout |-> TRUE, returncode |-> 0, passed |-> 0, failed |-> 0,
       failed_lines |-> 0] } \cup
    { r \in [timeout : {FALSE}, returncode : {0, 1}, passed : 0..1,
             failed : 0..1, failed_lines : {0}] :
          r.returncode = 0 => r.failed = 0 }

\* the same, and the runs that exit non-zero with a FAILED line in their
\* output and a summary line that counts no failure
PytestOutputs ==
    PytestRuns \cup
    [timeout : {FALSE}, returncode : {1}, passed : 0..1, failed : {0},
     failed_lines : {1}]

NoPytest ==
    [timeout |-> FALSE, returncode |-> 0, passed |-> 0, failed |-> 0,
     failed_lines |-> 0]

\* sandbox.runner._parse_pytest_output: the counts come from the summary
\* line, the details from the FAILED lines; a failure without any detail
\* gets the "(unparsed)" one
_parse_pytest_output(passed, failed, failed_lines) ==
    [all_passed |-> failed = 0 /\ passed + failed > 0,
     total_tests |-> passed + failed, passed |-> passed, failed |-> failed,
     failure_details |->
         IF failed_lines > 0
         THEN << Failure("test_calc", "AssertionError", "") >>
         ELSE IF failed > 0 THEN << Failure("(unparsed)", "Error", "") >>
         ELSE << >>]

\* variant: the exit code of pytest is not looked at
run_tests_ExitCodeIgnored(pytest) ==
    IF pytest.timeout
    THEN [all_passed |-> FALSE, total_tests |-> 0, passed |-> 0, failed |-> 1,
          failure_details |-> << Failure("(entire suite)", "TimeoutError", "") >>]
    ELSE _parse_pytest_output(pytest.passed, pytest.failed, pytest.failed_lines)

\* sandbox.runner.run_tests (TestExecutor.run delegates to it)
run_tests(pytest) ==
    IF pytest.timeout
    THEN [all_passed |-> FALSE, total_tests |-> 0, passed |-> 0, failed |-> 1,
          failure_details |-> << Failure("(entire suite)", "TimeoutError", "") >>]
    ELSE LET result_payload ==
                 _parse_pytest_output(pytest.passed, pytest.failed,
                                      pytest.failed_lines)
         IN  IF pytest.returncode = 0 THEN result_payload
             ELSE IF result_payload.failed = 0
             THEN [all_passed |-> FALSE,
                   total_tests |->
                       IF result_payload.total_tests > result_payload.passed + 1
                       THEN result_payload.total_tests
                       ELSE result_payload.passed + 1,
                   passed |-> result_payload.passed,
                   failed |-> 1,
                   failure_details |->
                       Append(result_payload.failure_details,
                              Failure("(pytest execution)", "ExecutionError", ""))]
             ELSE [result_payload EXCEPT !.all_passed = FALSE]

\* what a tools/call can answer: an exception, or a result with this text
CallRaised == [raised |-> TRUE, text |-> ""]
ToolReply(text) == [raised |-> FALSE, text |-> text]
Replies == { CallRaised, ToolReply(""), ToolReply("Calc.py util.py") }

\* what the loop did for one step: the tools/call attempts it made, how many
\* of them raised, and whether it provisioned the step's server
NoTries == [attempts |-> 0, raises |-> 0, provisioned |-> FALSE]

\* variant: the first raising call is retried whatever the server
may_retry_AnyServer(just_provisioned, attempt) == attempt = 0

\* `if just_provisioned and attempt == 0`: the raising call is tried again
may_retry(just_provisioned, attempt) == just_provisioned /\ attempt = 0

\* variant: a failed step is quarantined by its key only
Quarantined_StepOnly(s, step) ==
    [s EXCEPT !.q_steps = @ \cup {_step_key(step)}]

\* `self._quarantined_mcp_steps.add(step_key)` and
\* `self._quarantined_mcp_servers.add(step.server)`, which follow every
\* `failed += 1` of the step loop
Quarantined(s, step) ==
    [s EXCEPT !.q_steps = @ \cup {_step_key(step)},
              !.q_servers = @ \cup {step.server}]

\* variant: no step is skipped for its server
server_quarantined_Never(step, q_servers) == FALSE

\* `if step.server in self._quarantined_mcp_servers`, the first check of
\* the step loop
server_quarantined(step, q_servers) == step.server \in q_servers

\* `for step in plan.steps` from step k on.  st holds the call's locals and
\* the executor's quarantine while the loop runs; the value is the set of
\* states the loop can end in, one for each way the servers can answer
RECURSIVE ReplaySteps(_, _, _)
ReplaySteps(plan, k, st) ==
    IF k > Len(plan.steps) THEN {st}
    ELSE
    LET step == plan.steps[k]
        step_key == _step_key(step)
        Skipped(s) ==
            [s EXCEPT !.skipped_quarantined = @ + 1, !.passed = @ + 1,
                      !.disp = Append(@, "skipped")]
        Failed(s, error_type) ==
            [Quarantined(s, step) EXCEPT
                      !.failed = @ + 1,
                      !.failure_details =
                          Append(@, Failure(step.description, error_type, "")),
                      !.disp = Append(@, "failed")]
        Passed(s) ==
            [s EXCEPT !.passed = @ + 1, !.disp = Append(@, "passed")]
        \* the outcome of call_tool_for_server's result
        Checked(s, result) ==
            IF result.raised THEN Failed(s, "RuntimeError")
            ELSE LET s1 == [s EXCEPT !.dynamic_call_seen = @ \cup {step.server}]
                 IN  IF /\ step.expected # ""
                        /\ ~Contains(Lower(Chars(step.expected)),
                                     Lower(Chars(result.text)))
                     THEN Failed(s1, "AssertionError")
                     ELSE Passed(s1)
        \* one call_tool_for_server, with this reply
        Called1(s, reply) ==
            [s EXCEPT !.tool_calls[step_key] = @ + 1,
                      !.tries[k].attempts = @ + 1,
                      !.tries[k].raises = @ + (IF reply.raised THEN 1 ELSE 0)]
        \* the `while True` loop around call_tool_for_server: attempt 0, and
        \* the attempts that follow a raising one that may be retried
        Invoke(s) ==
            LET just_provisioned ==
                    /\ step.server \in s.dynamic_provisioned
                    /\ step.server \notin s.dynamic_call_seen
                Third(s2, second) ==
                    IF second.raised /\ may_retry(just_provisioned, 1)
                    THEN { Checked(Called1(s2, third), third) :
                             third \in Replies }
                    ELSE { Checked(s2, second) }
                Second(s1, first) ==
                    IF first.raised /\ may_retry(just_provisioned, 0)
                    THEN UNION { Third(Called1(s1, second), second) :
                                   second \in Replies }
                    ELSE { Checked(s1, first) }
            IN  UNION { Second(Called1(s, first), first) : first \in Replies }
        \* from `proc = procs.get(step.server)` on
        Replay(s) ==
            IF step.server \notin s.procs
            THEN { IF step.server \in s.startup_errors
                   THEN [Failed(s, "RuntimeError") EXCEPT
                            !.startup_reported = @ \cup {k}]
                   ELSE Failed(s, "ServerNotFound") }
            ELSE Invoke(s)
        \* sidecar_manager.ensure_running, then start_server_for_transport
        Provision(s) ==
            LET s1 == [s EXCEPT !.servers[step.server].endpoint =
                                    "http://127.0.0.1:7700/mcp"]
            IN  { Failed(s, "RuntimeError"), Failed(s1, "RuntimeError") } \cup
                Replay([s1 EXCEPT !.procs = @ \cup {step.server},
                                  !.dynamic_provisioned = @ \cup {step.server},
                                  !.tries[k].provisioned = TRUE])
        next ==
            IF server_quarantined(step, st.q_servers) THEN { Skipped(st) }
            ELSE IF step_key \in st.q_steps THEN { Skipped(st) }
            ELSE IF step.server \notin DOMAIN st.servers
            THEN { Failed(st, "ServerNotFound") }
            ELSE IF /\ step.server \notin st.procs
                    /\ can_lazy_provision(st.servers[step.server])
            THEN IF sidecar_manager = "None"
                 THEN { Failed(st, "DynamicSidecarManagerMissing") }
                 ELSE Provision(st)
            ELSE Replay(st)
    IN  UNION { ReplaySteps(plan, k + 1, s) : s \in next }

\* TestExecutor.run_mcp_tests: every way the call can end, each with its
\* result, with what it leaves in the executor and in the plan's servers,
\* and with the servers it called stop_server_for_transport for
run_mcp_tests(plan) ==
    IF Len(plan.steps) = 0
    THEN { [results |-> _empty_results, q_steps |-> _quarantined_mcp_steps,
            q_servers |-> _quarantined_mcp_servers, tool_calls |-> tool_calls,
            servers |-> plan.servers, disp |-> << >>, startup_errors |-> {},
            startup_reported |-> {}, tries |-> << >>, stopped |-> {}] }
    ELSE
    LET attempted ==
            { name \in DOMAIN plan.servers :
                /\ name \notin _quarantined_mcp_servers
                /\ ~(can_lazy_provision(plan.servers[name])
                     /\ sidecar_manager # "None") }
        Finished(st) ==
            LET total == st.passed + st.failed
            IN  [results |->
                     [all_passed |-> st.failed = 0 /\ total > 0,
                      total_tests |-> total,
                      passed |-> st.passed, failed |-> st.failed,
                      failure_details |-> st.failure_details],
                 q_steps |-> st.q_steps, q_servers |-> st.q_servers,
                 tool_calls |-> st.tool_calls, servers |-> st.servers,
                 disp |-> st.disp, startup_errors |-> st.startup_errors,
                 startup_reported |-> st.startup_reported,
                 tries |-> st.tries,
                 \* `finally: for server in plan.servers:
                 \*     stop_server_for_transport(...)`
                 stopped |-> DOMAIN plan.servers]
    IN  UNION {
          { Finished(st) : st \in ReplaySteps(plan, 1,
              [procs |-> started, startup_errors |-> attempted \ started,
               startup_reported |-> {},
               dynamic_provisioned |-> {}, dynamic_call_seen |-> {},
               passed |-> 0, failed |-> 0, skipped_quarantined |-> 0,
               failure_details |-> << >>,
               q_steps |-> _quarantined_mcp_steps,
               q_servers |-> _quarantined_mcp_servers,
               tool_calls |-> tool_calls,
               servers |-> plan.servers, disp |-> << >>,
               tries |-> [j \in 1..Len(plan.steps) |-> NoTries]]) } :
          started \in SUBSET attempted }

\* TestExecutor.run_all: the merged result, given the two halves
run_all(tests, plan, unit_run, mcp_run) ==
    LET unit_results == IF tests # {} THEN unit_run ELSE _empty_results
    IN  IF plan.present /\ Len(plan.steps) > 0
        THEN LET mcp_results == mcp_run.results
                 total == unit_results.total_tests + mcp_results.total_tests
                 failed == unit_results.failed + mcp_results.failed
             IN  [all_passed |-> failed = 0 /\ total > 0,
                  total_tests |-> total,
                  passed |-> unit_results.passed + mcp_results.passed,
                  failed |-> failed,
                  failure_details |->
                      unit_results.failure_details \o mcp_results.failure_details]
        ELSE unit_results

NoExecHist ==
    [op |-> "none", disp |-> << >>, mcp_results |-> NoResults,
     failed_once |-> {}, startup_errors |-> {}, startup_reported |-> {},
     pytest |-> NoPytest, tries |-> << >>, stopped |-> {},
     failed_by_server |-> [name \in StepServers |-> 0]]

\* a TestExecutor that is not in use
ExecIdle ==
    /\ exec_test_files = {}
    /\ exec_plan = NoPlan
    /\ sidecar_manager = "None"
    /\ _quarantined_mcp_steps = {}
    /\ _quarantined_mcp_servers = {}
    /\ tool_calls = [key \in StepKeys |-> 0]
    /\ exec_results = NoResults
    /\ exec_rounds = 0
    /\ exec_hist = NoExecHist

\* the plans the test designer makes of an answer without steps for servers
\* it was given
SteplessPlans ==
    { _generate_test_plan(servers, << >>) :
          servers \in (SUBSET DOMAIN PlanServers) \ {{}} }

\* TestExecutor.__init__, with the FileSet and plan its calls will be given
ExecInit ==
    /\ exec_test_files \in SUBSET TestPaths
    /\ exec_plan \in Plans \cup SteplessPlans
    /\ sidecar_manager \in {"set", "None"}
    /\ _quarantined_mcp_steps = {}
    /\ _quarantined_mcp_servers = {}
    /\ tool_calls = [key \in StepKeys |-> 0]
    /\ exec_results = NoResults
    /\ exec_rounds = 0
    /\ exec_hist = NoExecHist

\* variant: the quarantine additions of the call are lost
AfterMcpRun_QuarantineLost(mcp_run, op) ==
    /\ UNCHANGED << _quarantined_mcp_steps, _quarantined_mcp_servers >>
    /\ tool_calls' = mcp_run.tool_calls
    /\ exec_plan' = [exec_plan EXCEPT !.servers = mcp_run.servers]
    /\ exec_hist' =
           [op |-> op, disp |-> mcp_run.disp, mcp_results |-> mcp_run.results,
            startup_errors |-> mcp_run.startup_errors,
            startup_reported |-> mcp_run.startup_reported,
            pytest |-> NoPytest, tries |-> mcp_run.tries,
            stopped |-> mcp_run.stopped,
            failed_by_server |->
                [name \in StepServers |->
                    exec_hist.failed_by_server[name] +
                    Cardinality({ k \in 1..Len(mcp_run.disp) :
                                    /\ mcp_run.disp[k] = "failed"
                                    /\ exec_plan.steps[k].server = name })],
            failed_once |->
                exec_hist.failed_once \cup
                { _step_key(exec_plan.steps[k]) :
                    k \in { j \in 1..Len(mcp_run.disp) : mcp_run.disp[j] = "failed" } }]

\* what a run_mcp_tests call leaves behind
AfterMcpRun(mcp_run, op) ==
    /\ _quarantined_mcp_steps' = mcp_run.q_steps
    /\ _quarantined_mcp_servers' = mcp_run.q_servers
    /\ tool_calls' = mcp_run.tool_calls
    /\ exec_plan' = [exec_plan EXCEPT !.servers = mcp_run.servers]
    /\ exec_hist' =
           [op |-> op, disp |-> mcp_run.disp, mcp_results |-> mcp_run.results,
            startup_errors |-> mcp_run.startup_errors,
            startup_reported |-> mcp_run.startup_reported,
            pytest |-> NoPytest, tries |-> mcp_run.tries,
            stopped |-> mcp_run.stopped,
            failed_by_server |->
                [name \in StepServers |->
                    exec_hist.failed_by_server[name] +
                    Cardinality({ k \in 1..Len(mcp_run.disp) :
                                    /\ mcp_run.disp[k] = "failed"
                                    /\ exec_plan.steps[k].server = name })],
            failed_once |->
                exec_hist.failed_once \cup
                { _step_key(exec_plan.steps[k]) :
                    k \in { j \in 1..Len(mcp_run.disp) : mcp_run.disp[j] = "failed" } }]

\* executor.run_all(code_files, test_files, mcp_plan, project_dir)
CallRunAll ==
    /\ exec_rounds < MaxRounds
    /\ exec_rounds' = exec_rounds + 1
    /\ \E unit_run \in (IF exec_test_files = {} THEN {NoResults}
                        ELSE { run_tests(pytest) : pytest \in PytestRuns }) :
           IF exec_plan.present /\ Len(exec_plan.steps) > 0
           THEN \E mcp_run \in run_mcp_tests(exec_plan) :
                    /\ exec_results' =
                           run_all(exec_test_files, exec_plan, unit_run, mcp_run)
                    /\ AfterMcpRun(mcp_run, "run_all")
           ELSE /\ exec_results' =
                       run_all(exec_test_files, exec_plan, unit_run,
                               [results |-> NoResults])
                /\ exec_hist' = [exec_hist EXCEPT !.op = "run_all", !.disp = << >>,
                                                  !.startup_errors = {},
                                                  !.startup_reported = {},
                                                  !.mcp_results = NoResults,
                                                  !.pytest = NoPytest,
                                                  !.tries = << >>,
                                                  !.stopped = {}]
                /\ UNCHANGED << _quarantined_mcp_steps, _quarantined_mcp_servers,
                                tool_calls, exec_plan >>
    /\ UNCHANGED << exec_test_files, sidecar_manager >>

\* executor.run_mcp_tests(plan, project_dir), called on its own
CallRunMcpTests ==
    /\ exec_rounds < MaxRounds
    /\ exec_plan.present
    /\ exec_rounds' = exec_rounds + 1
    /\ \E mcp_run \in run_mcp_tests(exec_plan) :
           /\ exec_results' = mcp_run.results
           /\ AfterMcpRun(mcp_run, "run_mcp_tests")
    /\ UNCHANGED << exec_test_files, sidecar_manager >>

\* executor.run(code_files, test_files): one sandbox run of the unit tests.
\* It leaves nothing behind but its result, so a run that follows a run
\* reaches no state the first one does not reach
CallRun ==
    /\ exec_hist.op # "run"
    /\ \E pytest \in PytestOutputs :
           /\ exec_results' = run_tests(pytest)
           /\ exec_hist' = [exec_hist EXCEPT !.op = "run", !.pytest = pytest,
                                             !.disp = << >>,
                                             !.mcp_results = NoResults,
                                             !.startup_errors = {},
                                             !.startup_reported = {},
                                             !.tries = << >>,
                                             !.stopped = {}]
    /\ UNCHANGED << exec_test_files, exec_plan, sidecar_manager,
                    _quarantined_mcp_steps, _quarantined_mcp_servers,
                    tool_calls, exec_rounds >>

(***************************************************************************)
(* Properties of the TestExecutor, checked under SpecExecutor.              *)
(***************************************************************************)
\* C1: every result run_all returns satisfies
\* all_passed == (failed == 0 AND total_tests > 0), the empty test FileSet
\* with an absent or step-less plan included
C1_RunAllInvariant ==
    exec_hist.op = "run_all" =>
        exec_results.all_passed =
            (exec_results.failed = 0 /\ exec_results.total_tests > 0)

\* C1, the case it fails in: run_all on an empty test FileSet and a plan
\* without steps has returned
C1_EmptyRunReturned ==
    /\ exec_hist.op = "run_all"
    /\ exec_test_files = {}
    /\ Len(exec_plan.steps) = 0

\* the steps of the plan whose latest disposition is one of `kinds`
StepsWith(h, kinds) ==
    { k \in 1..Len(h.disp) : h.disp[k] \in kinds }

\* C2: a call on a plan one of whose steps failed in an earlier call skips
\* that step, issues no tools/call for it and counts it as passed
C2_FailedStepSkipped ==
    [][ exec_rounds' = exec_rounds + 1 /\ Len(exec_plan.steps) > 0 =>
          /\ \A k \in 1..Len(exec_plan.steps) :
                 _step_key(exec_plan.steps[k]) \in exec_hist.failed_once =>
                     /\ exec_hist'.disp[k] = "skipped"
                     /\ tool_calls'[_step_key(exec_plan.steps[k])] =
                            tool_calls[_step_key(exec_plan.steps[k])]
          /\ exec_hist'.mcp_results.passed =
                 Cardinality(StepsWith(exec_hist', {"passed", "skipped"}))
          /\ exec_hist'.mcp_results.failed =
                 Cardinality(StepsWith(exec_hist', {"failed"})) ]_vars

\* C2: a second call has skipped a step that had failed in the first, after
\* one tools/call for it, and reports it passed
C2_Witness ==
    /\ exec_rounds >= 2
    /\ exec_hist.mcp_results.all_passed
    /\ \E k \in 1..Len(exec_hist.disp) :
           /\ exec_hist.disp[k] = "skipped"
           /\ _step_key(exec_plan.steps[k]) \in exec_hist.failed_once
           /\ tool_calls[_step_key(exec_plan.steps[k])] = 1

\* C14: every result of run_tests satisfies passed + failed == total_tests,
\* and a timed-out run has failed = 1, a single TimeoutError failure and
\* all_passed false
C14_CountsAddUp ==
    exec_hist.op = "run" =>
        /\ exec_results.passed + exec_results.failed = exec_results.total_tests
        /\ (\E k \in 1..Len(exec_results.failure_details) :
                exec_results.failure_details[k].error_type = "TimeoutError") =>
               /\ exec_results.failed = 1
               /\ Len(exec_results.failure_details) = 1
               /\ ~exec_results.all_passed

\* C14 case: a sandbox run has timed out
C14_TimedOut ==
    /\ exec_hist.op = "run"
    /\ Len(exec_results.failure_details) = 1
    /\ exec_results.failure_details[1].error_type = "TimeoutError"

\* C17: in a call of run_mcp_tests on a fresh executor, a failing step
\* makes all_passed false and no step after it in the plan is left out
C17_LaterStepsRun ==
    exec_rounds = 1 /\ exec_hist.op \in {"run_all", "run_mcp_tests"} =>
        \A j \in 1..Len(exec_hist.disp) :
            exec_hist.disp[j] = "failed" =>
                /\ ~exec_hist.mcp_results.all_passed
                /\ \A k \in (j + 1)..Len(exec_hist.disp) :
                       exec_hist.disp[k] \in {"passed", "failed"}

\* C17 case: the first step of a two-step plan failed in the first call
C17_FirstStepFailed ==
    /\ exec_rounds = 1
    /\ Len(exec_hist.disp) = 2
    /\ exec_hist.disp[1] = "failed"
    /\ ~exec_hist.mcp_results.all_passed

\* C18: a server that fails to start does not end the plan, and every step
\* that targets it is reported failed with the server's startup error
C18_StartupFailureAttributed ==
    exec_hist.op \in {"run_all", "run_mcp_tests"} /\ exec_hist.startup_errors # {} =>
        /\ Len(exec_hist.disp) = Len(exec_plan.steps)
        /\ \A k \in 1..Len(exec_plan.steps) :
               exec_plan.steps[k].server \in exec_hist.startup_errors =>
                   /\ exec_hist.disp[k] = "failed"
                   /\ k \in exec_hist.startup_reported

\* C18 case: a server failed to start and the plan holds two steps for it
C18_TwoStepsOnFailedServer ==
    /\ exec_hist.startup_errors = {"filesystem"}
    /\ Len(exec_plan.steps) = 2
    /\ exec_plan.steps[1].server = "filesystem"
    /\ exec_plan.steps[2].server = "filesystem"
    /\ exec_plan.steps[1] # exec_plan.steps[2]
    /\ exec_hist.disp[1] = "failed"
    /\ 1 \in exec_hist.startup_reported

Synthesized(res) ==
    { k \in 1..Len(res.failure_details) :
          /\ res.failure_details[k].test_name = "(pytest execution)"
          /\ res.failure_details[k].error_type = "ExecutionError" }

\* C25: when pytest exits non-zero the result of run_tests has all_passed
\* false; if moreover its summary counted no failure, the result has
\* failed = 1 and exactly one synthesized execution failure
C25_NonZeroExitFails ==
    /\ exec_hist.op = "run"
    /\ ~exec_hist.pytest.timeout
    /\ exec_hist.pytest.returncode # 0
    => /\ ~exec_results.all_passed
       /\ exec_hist.pytest.failed = 0 =>
              /\ exec_results.failed = 1
              /\ Cardinality(Synthesized(exec_results)) = 1

\* C25 witness: pytest reported one passed test and no failure, and exited
\* non-zero; run_tests returned one failure out of two tests
C25_Witness ==
    /\ exec_hist.op = "run"
    /\ exec_hist.pytest.returncode = 1
    /\ exec_hist.pytest.passed = 1
    /\ exec_hist.pytest.failed = 0
    /\ exec_hist.pytest.failed_lines = 0
    /\ ~exec_results.all_passed
    /\ exec_results.failed = 1
    /\ exec_results.total_tests = 2
    /\ Len(exec_results.failure_details) = 1

\* the plan of the executor is one the test designer can produce
Designed(plan) ==
    \E designed \in DesignedPlans :
        /\ designed.steps = plan.steps
        /\ DOMAIN designed.servers = DOMAIN plan.servers

\* C24: every step of a plan produced by the test designer names a server
\* of plan.servers, and every failure of a run_mcp_tests result is the
\* failure of a step of the plan that names a server of plan.servers or is
\* a ServerNotFound failure
C24_StepsAndFailuresOnPlanServers ==
    /\ Designed(exec_plan) =>
           \A k \in 1..Len(exec_plan.steps) :
               exec_plan.steps[k].server \in DOMAIN exec_plan.servers
    /\ exec_hist.op \in {"run_all", "run_mcp_tests"} =>
           LET details == exec_hist.mcp_results.failure_details
           IN  \A n \in 1..Len(details) :
                   \E k \in 1..Len(exec_plan.steps) :
                       /\ exec_plan.steps[k].description = details[n].test_name
                       /\ \/ exec_plan.steps[k].server \in DOMAIN exec_plan.servers
                          \/ details[n].error_type = "ServerNotFound"

\* C24 witness: the plan is one the designer produces, with steps on both
\* of its servers; run_mcp_tests reported the first step as failed
C24_Witness ==
    /\ exec_hist.op = "run_mcp_tests"
    /\ Designed(exec_plan)
    /\ Len(exec_plan.steps) = 2
    /\ exec_plan.steps[1].server = "filesystem"
    /\ exec_plan.steps[2].server = "browser"
    /\ Len(exec_hist.mcp_results.failure_details) >= 1
    /\ exec_hist.mcp_results.failure_details[1].test_name = "list files"

\* C36: over the lifetime of a TestExecutor each server name accounts for
\* at most one failed step; the failure of a step puts its server in
\* quarantine, and a call skips every step on a server that is in
\* quarantine when the call starts: no tools/call, counted as passed
C36_OneFailurePerServer ==
    /\ \A name \in StepServers : exec_hist.failed_by_server[name] = 0
    /\ [][ exec_rounds' = exec_rounds + 1 /\ Len(exec_plan.steps) > 0 =>
           /\ \A name \in StepServers :
                  /\ exec_hist'.failed_by_server[name] <= 1
                  /\ exec_hist'.failed_by_server[name] = 1 =>
                         name \in _quarantined_mcp_servers'
           /\ \A k \in 1..Len(exec_plan.steps) :
                  exec_plan.steps[k].server \in _quarantined_mcp_servers =>
                      /\ exec_hist'.disp[k] = "skipped"
                      /\ tool_calls'[_step_key(exec_plan.steps[k])] =
                             tool_calls[_step_key(exec_plan.steps[k])]
           /\ exec_hist'.mcp_results.passed =
                  Cardinality(StepsWith(exec_hist', {"passed", "skipped"})) ]_vars

\* C36 witness: the first of two steps on "filesystem" failed its
\* expectation, the second was skipped in the same call, and a later call
\* skipped both; one failure is counted for the server
C36_Witness ==
    /\ exec_rounds >= 2
    /\ exec_hist.op = "run_mcp_tests"
    /\ Len(exec_plan.steps) = 2
    /\ \A k \in 1..2 : exec_plan.steps[k].server = "filesystem"
    /\ exec_hist.disp = << "skipped", "skipped" >>
    /\ exec_hist.failed_by_server["filesystem"] = 1
    /\ tool_calls[_step_key(exec_plan.steps[2])] = 0
    /\ exec_hist.mcp_results.all_passed

\* C37: the quarantine sets of a TestExecutor only grow, and every key in
\* the quarantined steps is the key of a step whose server is in the
\* quarantined servers, so that no step is skipped for its key alone
C37_QuarantineGrowsTogether ==
    /\ \A key \in _quarantined_mcp_steps :
           key.server \in _quarantined_mcp_servers
    /\ [][ /\ _quarantined_mcp_steps \subseteq _quarantined_mcp_steps'
           /\ _quarantined_mcp_servers \subseteq _quarantined_mcp_servers'
           /\ \A key \in _quarantined_mcp_steps' :
                  key.server \in _quarantined_mcp_servers'
           /\ exec_rounds' = exec_rounds + 1 =>
                  \A k \in 1..Len(exec_hist'.disp) :
                      exec_hist'.disp[k] = "skipped" =>
                          exec_plan.steps[k].server \in
                              _quarantined_mcp_servers' ]_vars

\* C37 witness: a step on a server no plan configures has failed; its key
\* and its server are both in quarantine, and a later call skipped it
C37_Witness ==
    /\ exec_rounds >= 2
    /\ \E k \in 1..Len(exec_plan.steps) :
           /\ exec_plan.steps[k].server = "ghost"
           /\ _step_key(exec_plan.steps[k]) \in _quarantined_mcp_steps
           /\ "ghost" \in _quarantined_mcp_servers
           /\ k <= Len(exec_hist.disp)
           /\ exec_hist.disp[k] = "skipped"

\* run_mcp_tests has just been called, directly or by run_all
McpTestsCalled ==
    \/ exec_hist.op = "run_mcp_tests"
    \/ exec_hist.op = "run_all" /\ exec_plan.present /\ Len(exec_plan.steps) > 0

\* C32: run_mcp_tests calls stop_server_for_transport for every server of
\* the plan before it returns, whatever happened to the servers and steps
C32_EveryServerStopped ==
    McpTestsCalled => exec_hist.stopped = DOMAIN exec_plan.servers

\* C32, the case it fails in: run_mcp_tests has returned for a plan that
\* has servers and no steps, and stop_server_for_transport was not called
C32_SteplessPlanReturned ==
    /\ exec_hist.op = "run_mcp_tests"
    /\ Len(exec_plan.steps) = 0
    /\ DOMAIN exec_plan.servers # {}
    /\ exec_hist.stopped = {}

\* C32 holds of the calls whose plan has steps: every server is stopped,
\* also after a failed start, a failed provisioning or a raising step
C32_StoppedWhenStepsExist ==
    McpTestsCalled /\ Len(exec_plan.steps) > 0 =>
        exec_hist.stopped = DOMAIN exec_plan.servers

(***************************************************************************)
(* The MCPSidecarManager.  One manager serves a sequence of calls; the      *)
(* host's ports are bound by the sidecar processes it spawns and by         *)
(* processes foreign to it.                                                 *)
(***************************************************************************)
\* Config.mcp_dynamic_sidecar_base_port
BasePort == 7700

Ports == BasePort..(BasePort + PortSpan - 1)

\* the MCPServer fields the manager reads; "" and 0 stand for None
SidecarServer(name, sidecar_package, install_cmd, sidecar_port, native) ==
    [name |-> name, sidecar_package |-> sidecar_package,
     install_cmd |-> install_cmd, sidecar_port |-> sidecar_port,
     native |-> native]

\* two servers of one package, a server with its own install command and
\* its own port, and a server that needs no install and speaks SSE natively
SidecarServers ==
    { SidecarServer("browser", "@mcp/web", FALSE, 0, FALSE),
      SidecarServer("search", "@mcp/web", FALSE, 0, FALSE),
      SidecarServer("notes", "", TRUE, BasePort, FALSE),
      SidecarServer("files", "", FALSE, 0, TRUE) }

SidecarNames == { server.name : server \in SidecarServers }

\* mcp.sidecar_install_command: is there a command to run
sidecar_install_command(server) ==
    server.install_cmd \/ server.sidecar_package # ""

\* mcp.preferred_sidecar_launch_mode
preferred_sidecar_launch_mode(server) ==
    IF server.native THEN "native_sse" ELSE "bridge"

\* variant: no process is ever found running
_is_running_Never(name) == FALSE

\* MCPSidecarManager._is_running, by name
_is_running(name) == name \in DOMAIN _managed /\ _managed[name].alive

\* _port_is_free: can the port be bound now
_port_is_free(port) == listeners[port] = "free"

\* MCPSidecarManager._allocate_port: the port found, or 0 for the RuntimeError
_allocate_port ==
    LET candidates == { port \in Ports :
                          port \notin _used_ports /\ _port_is_free(port) }
    IN  IF candidates = {} THEN 0
        ELSE CHOOSE port \in candidates : \A other \in candidates : port <= other

\* the fields install_if_needed sets, as they stand
InstallState ==
    [failed_servers |-> failed_servers,
     failed_install_servers |-> failed_install_servers,
     failed_install_packages |-> failed_install_packages,
     installed_servers |-> installed_servers,
     install_runs |-> install_runs]

\* variant: a failed install is remembered for the server only
install_if_needed_ByNameOnly(server, install_ok) ==
    LET package_name == Strip(Chars(server.sidecar_package))
        now == InstallState
    IN  IF server.name \in failed_install_servers
        THEN [ok |-> FALSE, state |-> now]
        ELSE IF package_name # << >> /\ package_name \in failed_install_packages
        THEN [ok |-> FALSE,
              state |-> [now EXCEPT !.failed_install_servers = @ \cup {server.name}]]
        ELSE IF ~sidecar_install_command(server)
        THEN [ok |-> TRUE, state |-> now]
        ELSE LET ran == [now EXCEPT !.install_runs[server.name] = @ + 1]
             IN  IF install_ok
                 THEN [ok |-> TRUE,
                       state |-> [ran EXCEPT !.installed_servers = @ \cup {server.name}]]
                 ELSE [ok |-> FALSE,
                       state |->
                           [ran EXCEPT
                              !.failed_servers = @ \cup {server.name},
                              !.failed_install_servers = @ \cup {server.name}]]

\* MCPSidecarManager.install_if_needed: what it returns and the fields it
\* leaves, install_ok being the outcome of install_server should it run
install_if_needed(server, install_ok) ==
    LET package_name == Strip(Chars(server.sidecar_package))
        now == InstallState
    IN  IF server.name \in failed_install_servers
        THEN [ok |-> FALSE, state |-> now]
        ELSE IF package_name # << >> /\ package_name \in failed_install_packages
        THEN [ok |-> FALSE,
              state |-> [now EXCEPT !.failed_install_servers = @ \cup {server.name}]]
        ELSE IF ~sidecar_install_command(server)
        THEN [ok |-> TRUE, state |-> now]
        ELSE LET ran == [now EXCEPT !.install_runs[server.name] = @ + 1]
             IN  IF install_ok
                 THEN [ok |-> TRUE,
                       state |-> [ran EXCEPT !.installed_servers = @ \cup {server.name}]]
                 ELSE [ok |-> FALSE,
                       state |->
                           [ran EXCEPT
                              !.failed_servers = @ \cup {server.name},
                              !.failed_install_servers = @ \cup {server.name},
                              !.failed_install_packages =
                                  IF package_name # << >>
                                  THEN @ \cup {package_name} ELSE @]]

\* install_if_needed's fields take the values of `state`
SetInstallState(state) ==
    /\ failed_servers' = state.failed_servers
    /\ failed_install_servers' = state.failed_install_servers
    /\ failed_install_packages' = state.failed_install_packages
    /\ installed_servers' = state.installed_servers
    /\ install_runs' = state.install_runs

\* what a call spawned, stopped and returned: the launch modes of the
\* processes it spawned, in order, how many of them it stopped again, and
\* the port of the endpoint it returned (0 if it returned none)
Launched(spawned, stopped, endpoint) ==
    [spawned |-> spawned, stopped |-> stopped, endpoint |-> endpoint]

NothingLaunched == Launched(<< >>, 0, 0)

\* the record of one served call
Served(op, server, raised, installed, launched) ==
    /\ side_calls' = side_calls + 1
    /\ side_hist' =
           [op |-> op, server |-> server.name, raised |-> raised,
            install |-> installed,
            spawned |-> launched.spawned,
            stopped |-> launched.stopped,
            endpoint |-> launched.endpoint,
            signals |-> << >>, stubborn |-> {},
            install_failed |->
                side_hist.install_failed \cup
                (IF installed = "False" THEN {server} ELSE {})]

\* the call raises, leaving the manager's other fields as install_if_needed
\* (if it ran) left them
Raises(op, server, installed, state, launched) ==
    /\ Served(op, server, TRUE, installed, launched)
    /\ SetInstallState(state)
    /\ UNCHANGED << side_cfg, _managed, _used_ports, reused_servers, listeners >>

\* what health_check can return for a process spawned on `port` in `mode`:
\* a process that has bound the port may come up or not; one that could not
\* bind it exits, but until it has, a live sidecar of the same kind holding
\* the port answers the probe in its place
HealthChecks(port, mode) ==
    IF _port_is_free(port) THEN BOOLEAN
    ELSE IF /\ listeners[port] \in DOMAIN _managed
            /\ _managed[listeners[port]].launch_mode = mode
         THEN BOOLEAN
         ELSE {FALSE}

\* variant: no server counts as failed before
previously_failed_Forgotten(server) == FALSE

\* `server.name in self.failed_servers`, the first check of ensure_running
\* and (after the config check) of launch_sidecar
previously_failed(server) == server.name \in failed_servers

\* MCPSidecarManager.get_endpoint: the port of the endpoint of the managed
\* sidecar of that name if its process is running, 0 for None
get_endpoint(server_name) ==
    IF _is_running(server_name) THEN _managed[server_name].port ELSE 0

\* variant: any failed health check is followed by a retry in bridge mode
retries_in_bridge_AnyMode(launch_mode, healthy) == ~healthy

\* `if not healthy and launch_mode == "native_sse"`
retries_in_bridge(launch_mode, healthy) ==
    ~healthy /\ launch_mode = "native_sse"

\* variant: the cap is compared with `>`
cap_reached_OffByOne ==
    Cardinality(DOMAIN _managed) > side_cfg.mcp_dynamic_max_sidecars_per_run

\* `len(self._managed) >= int(self.config.mcp_dynamic_max_sidecars_per_run)`
cap_reached ==
    Cardinality(DOMAIN _managed) >= side_cfg.mcp_dynamic_max_sidecars_per_run

\* MCPSidecarManager.launch_sidecar(server), reached as `op`
launch_sidecar(server, op) ==
    IF ~side_cfg.mcp_dynamic_sidecars_enabled
    THEN Raises(op, server, "none", InstallState, NothingLaunched)
    ELSE IF previously_failed(server)
    THEN Raises(op, server, "none", InstallState, NothingLaunched)
    ELSE IF _is_running(server.name)
    THEN /\ reused_servers' = reused_servers \cup {server.name}
         /\ Served(op, server, FALSE, "none",
                   Launched(<< >>, 0, _managed[server.name].port))
         /\ UNCHANGED << side_cfg, _managed, _used_ports, failed_servers,
                         failed_install_servers, failed_install_packages,
                         installed_servers, listeners, install_runs >>
    ELSE IF cap_reached
    THEN Raises(op, server, "none", InstallState, NothingLaunched)
    ELSE \E install_ok \in BOOLEAN :
         LET inst == install_if_needed(server, install_ok)
             port == IF server.sidecar_port # 0 THEN server.sidecar_port
                     ELSE _allocate_port
             first_mode == preferred_sidecar_launch_mode(server)
         IN  IF ~inst.ok THEN Raises(op, server, "False", inst.state,
                                     NothingLaunched)
             ELSE IF port = 0 THEN Raises(op, server, "True", inst.state,
                                          NothingLaunched)
             ELSE \E first \in HealthChecks(port, first_mode) :
                  \E second \in HealthChecks(port, "bridge") :
                  LET fallback == retries_in_bridge(first_mode, first)
                      healthy == IF fallback THEN second ELSE first
                      launch_mode == IF fallback THEN "bridge" ELSE first_mode
                      \* _spawn_process once, and once more for the retry,
                      \* before which the first process is stopped
                      spawned == IF fallback THEN << first_mode, "bridge" >>
                                 ELSE << first_mode >>
                  IN  IF ~healthy
                      THEN Raises(op, server, "True",
                                  [inst.state EXCEPT
                                     !.failed_servers = @ \cup {server.name}],
                                  Launched(spawned, Len(spawned), 0))
                      ELSE /\ _managed' =
                                  [name \in DOMAIN _managed \cup {server.name} |->
                                      IF name = server.name
                                      THEN [port |-> port,
                                            launch_mode |-> launch_mode,
                                            alive |-> TRUE]
                                      ELSE _managed[name]]
                           /\ _used_ports' = _used_ports \cup {port}
                           /\ listeners' =
                                  IF _port_is_free(port)
                                  THEN [listeners EXCEPT ![port] = server.name]
                                  ELSE listeners
                           /\ SetInstallState(inst.state)
                           /\ Served(op, server, FALSE, "True",
                                     Launched(spawned, Len(spawned) - 1, port))
                           /\ UNCHANGED << side_cfg, reused_servers >>

\* manager.install_if_needed(server)
CallInstallIfNeeded ==
    /\ side_calls < MaxCalls
    /\ \E server \in SidecarServers, install_ok \in BOOLEAN :
           LET inst == install_if_needed(server, install_ok)
           IN  /\ SetInstallState(inst.state)
               /\ Served("install_if_needed", server, FALSE,
                         IF inst.ok THEN "True" ELSE "False", NothingLaunched)
    /\ UNCHANGED << side_cfg, _managed, _used_ports, reused_servers, listeners >>

\* manager.launch_sidecar(server)
CallLaunchSidecar ==
    /\ side_calls < MaxCalls
    /\ \E server \in SidecarServers : launch_sidecar(server, "launch_sidecar")

\* manager.ensure_running(server); get_endpoint is the running sidecar's
\* endpoint, or None
CallEnsureRunning ==
    /\ side_calls < MaxCalls
    /\ \E server \in SidecarServers :
           IF previously_failed(server)
           THEN Raises("ensure_running", server, "none", InstallState,
                       NothingLaunched)
           ELSE IF get_endpoint(server.name) # 0
           THEN /\ reused_servers' = reused_servers \cup {server.name}
                /\ Served("ensure_running", server, FALSE, "none",
                          Launched(<< >>, 0, get_endpoint(server.name)))
                /\ UNCHANGED << side_cfg, _managed, _used_ports, failed_servers,
                                failed_install_servers, failed_install_packages,
                                installed_servers, listeners, install_runs >>
           ELSE launch_sidecar(server, "ensure_running")

\* variant: terminate and wait, with no kill after the wait times out
_stop_process_TerminateOnly(exits) == << "terminate" >>

\* MCPSidecarManager._stop_process: the signals it sends to a process that
\* exits within the wait after terminate(), or does not
_stop_process(exits) ==
    IF exits THEN << "terminate" >> ELSE << "terminate", "kill" >>

\* manager.stop_all(); of the live processes, those in `stubborn` do not
\* exit within the wait that follows terminate()
CallStopAll ==
    /\ side_calls < MaxCalls
    /\ side_calls' = side_calls + 1
    /\ \E stubborn \in SUBSET { name \in DOMAIN _managed : _managed[name].alive } :
           side_hist' = [side_hist EXCEPT
                           !.op = "stop_all", !.server = "",
                           !.raised = FALSE, !.install = "none",
                           !.spawned = << >>, !.stopped = 0,
                           !.endpoint = 0,
                           !.signals = [name \in DOMAIN _managed |->
                                           _stop_process(name \notin stubborn)],
                           !.stubborn = stubborn]
    /\ listeners' = [port \in Ports |->
                        IF listeners[port] \in DOMAIN _managed THEN "free"
                        ELSE listeners[port]]
    /\ _managed' = << >>
    /\ _used_ports' = {}
    /\ UNCHANGED << side_cfg, failed_servers, failed_install_servers,
                    failed_install_packages, installed_servers, reused_servers,
                    install_runs >>

\* a managed sidecar's process exits on its own; its port is released
ProcessExits ==
    \E name \in DOMAIN _managed :
        /\ _managed[name].alive
        /\ _managed' = [_managed EXCEPT ![name].alive = FALSE]
        /\ listeners' = [port \in Ports |->
                            IF listeners[port] = name THEN "free"
                            ELSE listeners[port]]
        /\ UNCHANGED << side_cfg, _used_ports, failed_servers,
                        failed_install_servers, failed_install_packages,
                        installed_servers, reused_servers, install_runs,
                        side_calls, side_hist >>

NoSideHist ==
    [op |-> "none", server |-> "", raised |-> FALSE, install |-> "none",
     spawned |-> << >>, stopped |-> 0, endpoint |-> 0,
     signals |-> << >>, stubborn |-> {},
     install_failed |-> {}]

\* MCPSidecarManager.__init__ on a host some of whose ports are taken
SideInit ==
    /\ side_cfg \in [mcp_dynamic_sidecars_enabled : BOOLEAN,
                     mcp_dynamic_max_sidecars_per_run : 1..MaxSidecars]
    /\ listeners \in [Ports -> {"free", "foreign"}]
    /\ _managed = << >>
    /\ _used_ports = {}
    /\ failed_servers = {}
    /\ failed_install_servers = {}
    /\ failed_install_packages = {}
    /\ installed_servers = {}
    /\ reused_servers = {}
    /\ install_runs = [name \in SidecarNames |-> 0]
    /\ side_calls = 0
    /\ side_hist = NoSideHist

\* a manager that is not in use
SideIdle ==
    /\ side_cfg = [mcp_dynamic_sidecars_enabled |-> TRUE,
                   mcp_dynamic_max_sidecars_per_run |-> 1]
    /\ listeners = [port \in Ports |-> "free"]
    /\ _managed = << >>
    /\ _used_ports = {}
    /\ failed_servers = {}
    /\ failed_install_servers = {}
    /\ failed_install_packages = {}
    /\ installed_servers = {}
    /\ reused_servers = {}
    /\ install_runs = [name \in SidecarNames |-> 0]
    /\ side_calls = 0
    /\ side_hist = NoSideHist

(***************************************************************************)
(* Properties of the MCPSidecarManager, checked under SpecSidecars.         *)
(***************************************************************************)
\* C9: the manager never gives the same TCP port to two sidecars, whether
\* the port comes from the range scan or from a server's own sidecar_port
C9_NoPortGivenTwice ==
    \A a \in DOMAIN _managed : \A b \in DOMAIN _managed :
        a # b => _managed[a].port # _managed[b].port

\* the server a call was made for
ServedServer(h) == CHOOSE server \in SidecarServers : server.name = h.server

\* C10: once install_if_needed has returned false for a server, a later
\* install_if_needed for that server, or for another server of the same
\* sidecar_package, returns false and runs no install command
C10_FailedInstallCached ==
    [][ side_calls' = side_calls + 1 /\ side_hist'.install # "none" =>
          ( (\E before \in side_hist.install_failed :
                \/ before.name = ServedServer(side_hist').name
                \/ /\ before.sidecar_package # ""
                   /\ before.sidecar_package =
                          ServedServer(side_hist').sidecar_package)
            => /\ side_hist'.install = "False"
               /\ install_runs' = install_runs ) ]_vars

\* C10: install_if_needed for "search" has returned false without an install
\* run of its own, after the one install run of "browser", of the same
\* package, failed
C10_Witness ==
    /\ side_hist.op = "install_if_needed"
    /\ side_hist.server = "search"
    /\ side_hist.install = "False"
    /\ install_runs["search"] = 0
    /\ install_runs["browser"] = 1
    /\ "browser" \in failed_install_servers

\* the call that has just been served was ensure_running or launch_sidecar
LaunchCall ==
    /\ side_calls' = side_calls + 1
    /\ side_hist'.op \in {"ensure_running", "launch_sidecar"}

\* C27: once a server is in failed_servers (after a failed install or a
\* failed health check), every later ensure_running or launch_sidecar for it
\* raises, runs no install command and spawns no process
C27_FailedServerStaysFailed ==
    [][ LaunchCall /\ side_hist'.server \in failed_servers =>
          /\ side_hist'.raised
          /\ side_hist'.spawned = << >>
          /\ install_runs' = install_runs
          /\ _managed' = _managed
          /\ side_hist'.server \in failed_servers' ]_vars

\* C27 witness: the sidecar of "files" failed its health check, and a later
\* ensure_running for it raised without spawning
C27_Witness ==
    /\ side_calls >= 2
    /\ side_hist.op = "ensure_running"
    /\ side_hist.server = "files"
    /\ side_hist.raised
    /\ side_hist.spawned = << >>
    /\ "files" \in failed_servers
    /\ "files" \notin failed_install_servers

\* C28: ensure_running for a server (not failed) whose managed sidecar is
\* alive returns that sidecar's endpoint and spawns nothing; it spawns only
\* when the server has no live managed sidecar, so calls repeated on a
\* healthy server return one endpoint after one launch
C28_RunningSidecarReused ==
    [][ side_calls' = side_calls + 1 /\ side_hist'.op = "ensure_running" =>
          LET name == side_hist'.server
              live == name \in DOMAIN _managed /\ _managed[name].alive
          IN  /\ live /\ name \notin failed_servers =>
                     /\ ~side_hist'.raised
                     /\ side_hist'.spawned = << >>
                     /\ side_hist'.endpoint = _managed[name].port
                     /\ _managed' = _managed
              /\ side_hist'.spawned # << >> => ~live ]_vars

\* C28 witness: two ensure_running calls for "files"; the first launched its
\* sidecar, the second returned the same endpoint without a spawn
C28_Witness ==
    /\ side_calls = 2
    /\ side_hist.op = "ensure_running"
    /\ side_hist.server = "files"
    /\ ~side_hist.raised
    /\ side_hist.spawned = << >>
    /\ "files" \in DOMAIN _managed
    /\ _managed["files"].alive
    /\ side_hist.endpoint = _managed["files"].port
    /\ "files" \in reused_servers

\* C30: one launch_sidecar spawns at most two processes; a second one only
\* in bridge mode after a native_sse process failed its health check and
\* was stopped; a failed bridge process is not retried.  When the call gives
\* up, the server is in failed_servers, every process it spawned has been
\* stopped, the managed set is as before, and the call raises.
C30_AtMostOneBridgeRetry ==
    [][ LaunchCall =>
          LET spawned == side_hist'.spawned
          IN  /\ Len(spawned) <= 2
              /\ Len(spawned) = 2 =>
                     /\ spawned = << "native_sse", "bridge" >>
                     /\ side_hist'.stopped >= 1
              /\ side_hist'.raised /\ spawned # << >> =>
                     /\ spawned[Len(spawned)] = "bridge"
                     /\ side_hist'.server \in failed_servers'
                     /\ side_hist'.stopped = Len(spawned)
                     /\ _managed' = _managed
              /\ ~side_hist'.raised /\ spawned # << >> =>
                     /\ side_hist'.stopped = Len(spawned) - 1
                     /\ side_hist'.server \in DOMAIN _managed' ]_vars

\* C30 witness: launch_sidecar for a native_sse server spawned the native
\* process and then the bridge, both failed the health check, and it raised
C30_Witness ==
    /\ side_hist.op = "launch_sidecar"
    /\ side_hist.raised
    /\ side_hist.spawned = << "native_sse", "bridge" >>
    /\ side_hist.stopped = 2
    /\ side_hist.server \in failed_servers
    /\ side_hist.server \notin DOMAIN _managed

\* C31: after stop_all returns, every process that was in the managed set
\* has been sent terminate, and kill as well if it did not exit in the wait;
\* the managed set is empty and so is the set of claimed ports
C31_StopAllStopsEverything ==
    [][ side_calls' = side_calls + 1 /\ side_hist'.op = "stop_all" =>
          /\ DOMAIN side_hist'.signals = DOMAIN _managed
          /\ \A name \in DOMAIN _managed :
                 /\ side_hist'.signals[name][1] = "terminate"
                 /\ name \in side_hist'.stubborn =>
                        side_hist'.signals[name] = << "terminate", "kill" >>
          /\ _managed' = << >>
          /\ _used_ports' = {} ]_vars

\* C31 witness: stop_all has returned after two sidecars were managed, one
\* of which had to be killed; nothing is managed and no port is claimed
C31_Witness ==
    /\ side_hist.op = "stop_all"
    /\ Cardinality(DOMAIN side_hist.signals) = 2
    /\ \E name \in side_hist.stubborn :
           side_hist.signals[name] = << "terminate", "kill" >>
    /\ \E name \in DOMAIN side_hist.signals :
           side_hist.signals[name] = << "terminate" >>
    /\ _managed = << >>
    /\ _used_ports = {}

\* C39: the managed set never holds more than
\* mcp_dynamic_max_sidecars_per_run sidecars; with the cap reached, an
\* ensure_running or launch_sidecar installs nothing and spawns nothing,
\* and it raises for every server that has no running sidecar to hand back
C39_CapOnManagedSidecars ==
    /\ Cardinality(DOMAIN _managed) <= side_cfg.mcp_dynamic_max_sidecars_per_run
    /\ [][ /\ Cardinality(DOMAIN _managed') <=
                  side_cfg'.mcp_dynamic_max_sidecars_per_run
           /\ ( /\ LaunchCall
                /\ Cardinality(DOMAIN _managed) >=
                       side_cfg.mcp_dynamic_max_sidecars_per_run )
              => /\ side_hist'.spawned = << >>
                 /\ side_hist'.install = "none"
                 /\ install_runs' = install_runs
                 /\ installed_servers' = installed_servers
                 /\ _managed' = _managed
                 /\ \/ side_hist'.raised
                    \/ /\ side_hist'.server \in DOMAIN _managed
                       /\ _managed[side_hist'.server].alive
                       /\ side_hist'.endpoint =
                              _managed[side_hist'.server].port ]_vars

\* C39 witness: with a cap of one and the sidecar of "files" managed and
\* running, a launch for "notes", enabled and not failed, has raised before
\* any install or spawn
C39_Witness ==
    /\ side_cfg.mcp_dynamic_sidecars_enabled
    /\ side_cfg.mcp_dynamic_max_sidecars_per_run = 1
    /\ DOMAIN _managed = {"files"}
    /\ _managed["files"].alive
    /\ side_hist.op \in {"ensure_running", "launch_sidecar"}
    /\ side_hist.server = "notes"
    /\ side_hist.raised
    /\ side_hist.install = "none"
    /\ side_hist.spawned = << >>
    /\ "notes" \notin failed_servers
    /\ install_runs["notes"] = 0

(***************************************************************************)
(* Capability delegation.  A Builder whose gate finds it not capable calls  *)
(* delegate_to_child_builder, which may spawn a child Builder through the   *)
(* `run` command.                                                           *)
(***************************************************************************)
\* the fields of a CapabilityDecision that make its signature
Decisions ==
    [missing_capabilities : { {}, {"gpu"}, {"gpu", "browser"} },
     reasons : { {}, {"gpu"} }]

\* pregnancy._capability_signature; the "|"-joined sorted names are
\* modelled by the set of names
_capability_signature(decision) ==
    IF decision.missing_capabilities # {} THEN decision.missing_capabilities
    ELSE IF decision.reasons # {} THEN decision.reasons
    ELSE {"unspecified_capability_gap"}

\* pregnancy._signature_seen
_signature_seen(signature, signatures) ==
    \E k \in 1..Len(signatures) : signatures[k] = signature

\* the seen_signatures lists a first Builder is started with
SeenLists ==
    { << >>, << {"gpu"} >>, << {"gpu"}, {"gpu", "browser"} >> }

\* variant: the depth itself is compared with the maximum
DelegationGate_DepthOffByOne(depth, seen_signatures, decision) ==
    LET max_depth == IF pregnancy_max_depth > 0 THEN pregnancy_max_depth ELSE 0
    IN  IF depth > max_depth THEN "PregnancyDepthExceeded"
        ELSE IF _signature_seen(_capability_signature(decision), seen_signatures)
        THEN "RepeatedCapabilitySignature"
        ELSE "spawn"

\* the two checks delegate_to_child_builder makes before it touches the
\* file system
DelegationGate(depth, seen_signatures, decision) ==
    LET max_depth == IF pregnancy_max_depth > 0 THEN pregnancy_max_depth ELSE 0
        next_depth == depth + 1
    IN  IF next_depth > max_depth THEN "PregnancyDepthExceeded"
        ELSE IF _signature_seen(_capability_signature(decision), seen_signatures)
        THEN "RepeatedCapabilitySignature"
        ELSE "spawn"

\* the options the `run` command declares
run_options == {"--project-dir"}

\* a Builder process: how it was started, what run_task runs with, where it is
Builder(argv, entered, depth, seen, at) ==
    [argv |-> argv, entered |-> entered, depth |-> depth, seen |-> seen,
     pc |-> at, result |-> NoResults, exit_code |-> -1]

\* the command line of a first Builder: `run REQUIREMENTS --project-dir DIR`
PlainArgv == [options |-> {"--project-dir"}, depth |-> 0, signatures |-> << >>]

NoPregHist ==
    [calls |-> 0, depth |-> 0, seen |-> << >>, decision |-> "none",
     outcome |-> "none", workspaces |-> 0, spawned |-> 0]

\* no Builder in sight
PregIdle ==
    /\ pregnancy_max_depth = 0
    /\ builders = << >>
    /\ preg_hist = NoPregHist

\* a first Builder inside run_task(requirements_path, project_dir,
\* pregnancy_depth=..., pregnancy_signatures=...), at the capability gate
PregInit ==
    /\ pregnancy_max_depth \in -1..MaxDepth
    /\ \E pregnancy_depth \in 0..MaxDepth, pregnancy_signatures \in SeenLists :
           builders = << Builder(PlainArgv, TRUE, pregnancy_depth,
                                 pregnancy_signatures, "gate") >>
    /\ preg_hist = NoPregHist

\* the Builder at the end of the chain
Last == builders[Len(builders)]

\* the last Builder ends with this result; the `run` command exits 1 unless
\* all_passed
Ends(res) ==
    builders' = [builders EXCEPT ![Len(builders)].pc = "exited",
                                 ![Len(builders)].result = res,
                                 ![Len(builders)].exit_code =
                                     IF res.all_passed THEN 0 ELSE 1]

\* the gate finds the Builder capable: it builds locally and ends
BuildLocally ==
    /\ builders # << >>
    /\ Last.pc = "gate"
    /\ \E res \in {PassedResult} \cup { FailedResult(f) : f \in UnitFailures } :
           Ends(res)
    /\ UNCHANGED << pregnancy_max_depth, preg_hist >>

\* the gate finds the Builder not capable: delegate_to_child_builder up to
\* subprocess.run; copying the repository may raise
Delegate ==
    /\ builders # << >>
    /\ Last.pc = "gate"
    /\ \E decision \in Decisions, copied \in BOOLEAN :
       LET gate == DelegationGate(Last.depth, Last.seen, decision)
           called == [preg_hist EXCEPT !.calls = @ + 1, !.depth = Last.depth,
                                       !.seen = Last.seen,
                                       !.decision = decision]
       IN  IF gate # "spawn"
           THEN /\ Ends(_failure_result(gate))
                /\ preg_hist' = [called EXCEPT !.outcome = gate]
           ELSE IF ~copied
           THEN /\ builders' = [builders EXCEPT ![Len(builders)].pc = "raised",
                                                ![Len(builders)].exit_code = 1]
                /\ preg_hist' = [called EXCEPT !.outcome = "raised",
                                               !.workspaces = @ + 1]
           ELSE /\ builders' =
                       Append([builders EXCEPT ![Len(builders)].pc = "wait_child"],
                              Builder([options |->
                                           {"--project-dir", "--pregnancy-depth",
                                            "--pregnancy-signatures"},
                                       depth |-> Last.depth + 1,
                                       signatures |->
                                           Append(Last.seen,
                                                  _capability_signature(decision))],
                                      FALSE, 0, << >>, "cli"))
                /\ preg_hist' = [called EXCEPT !.outcome = "spawn",
                                               !.workspaces = @ + 1,
                                               !.spawned = @ + 1]
    /\ UNCHANGED pregnancy_max_depth

\* the child's `python -m jelly run ...`: click rejects an option the
\* command does not declare with exit code 2; otherwise run() calls
\* run_task(requirements_path, project_dir)
run_command ==
    /\ builders # << >>
    /\ Last.pc = "cli"
    /\ IF Last.argv.options \subseteq run_options
       THEN builders' = [builders EXCEPT ![Len(builders)].pc = "gate",
                                         ![Len(builders)].entered = TRUE,
                                         ![Len(builders)].depth = 0,
                                         ![Len(builders)].seen = << >>]
       ELSE builders' = [builders EXCEPT ![Len(builders)].pc = "exited",
                                         ![Len(builders)].exit_code = 2]
    /\ UNCHANGED << pregnancy_max_depth, preg_hist >>

\* a result of delegate_to_child_builder with the fields that tell of the
\* child: delegated_to_child, child_workspace, child_project_dir
OfChild(res) ==
    [all_passed |-> res.all_passed, total_tests |-> res.total_tests,
     passed |-> res.passed, failed |-> res.failed,
     failure_details |-> res.failure_details,
     delegated_to_child |-> TRUE,
     child_workspace |-> "child_workspace",
     child_project_dir |-> "child_workspace/output"]

\* variant: the exit code of the child is not looked at
child_result_ExitIgnored(timeout, returncode) ==
    IF timeout THEN OfChild(_failure_result("PregnancyTimeout"))
    ELSE OfChild(_empty_results)

\* delegate_to_child_builder after subprocess.run: the result for a child
\* that timed out, exited non-zero, or exited with code 0
child_result(timeout, returncode) ==
    IF timeout THEN OfChild(_failure_result("PregnancyTimeout"))
    ELSE IF returncode # 0 THEN OfChild(_failure_result("ChildBuilderFailed"))
    ELSE OfChild(_empty_results)

\* subprocess.run returns, or pregnancy_timeout_seconds pass first
ChildReturns ==
    /\ Len(builders) >= 2
    /\ builders[Len(builders) - 1].pc = "wait_child"
    /\ \E timeout \in BOOLEAN :
           /\ ~timeout => Last.pc \in {"exited", "raised"}
           /\ LET res == child_result(timeout, Last.exit_code)
                  parent == Len(builders) - 1
              IN  builders' =
                      [SubSeq(builders, 1, parent) EXCEPT
                          ![parent].pc = "exited",
                          ![parent].result = res,
                          ![parent].exit_code = IF res.all_passed THEN 0 ELSE 1]
           /\ preg_hist' = [preg_hist EXCEPT !.outcome =
                                IF timeout THEN "PregnancyTimeout"
                                ELSE IF Last.exit_code # 0 THEN "ChildBuilderFailed"
                                ELSE "child_succeeded"]
    /\ UNCHANGED pregnancy_max_depth

\* whether the delegation that Builder b would make for this decision may spawn
MaySpawn(b, decision) ==
    /\ b.depth + 1 <= pregnancy_max_depth
    /\ ~_signature_seen(_capability_signature(decision), b.seen)

\* C11: a call of delegate_to_child_builder creates a workspace or spawns a
\* child only when depth + 1 <= pregnancy_max_depth and the signature of
\* the decision is not among seen_signatures; otherwise nothing is created
\* or spawned and the call returns the single typed failure
\* (PregnancyDepthExceeded before RepeatedCapabilitySignature) with
\* all_passed false.  With pregnancy_max_depth = 0 nothing is ever spawned.
C11_SpawnOnlyWhenAllowed ==
    [][ preg_hist'.calls = preg_hist.calls + 1 =>
          LET b == Last
              d == preg_hist'.decision
              returned == builders'[Len(builders)].result
          IN  /\ preg_hist'.spawned > preg_hist.spawned => MaySpawn(b, d)
              /\ preg_hist'.workspaces > preg_hist.workspaces => MaySpawn(b, d)
              /\ pregnancy_max_depth = 0 => preg_hist'.spawned = preg_hist.spawned
              /\ ~MaySpawn(b, d) =>
                     /\ Len(builders') = Len(builders)
                     /\ returned =
                            _failure_result(
                                IF b.depth + 1 > pregnancy_max_depth
                                THEN "PregnancyDepthExceeded"
                                ELSE "RepeatedCapabilitySignature")
                     /\ ~returned.all_passed
                     /\ Len(returned.failure_details) = 1 ]_vars

\* C11 witness: a delegation within the depth limit was refused for its
\* repeated signature, and another configuration spawned nothing at depth 0
C11_Witness ==
    /\ preg_hist.calls = 1
    /\ preg_hist.outcome = "RepeatedCapabilitySignature"
    /\ preg_hist.depth + 1 <= pregnancy_max_depth
    /\ preg_hist.spawned = 0
    /\ Len(builders) = 1
    /\ Last.result = _failure_result("RepeatedCapabilitySignature")

\* C12: every child Builder whose `run` command has been handled runs
\* run_task with depth = parent depth + 1 and with the parent's seen
\* signatures followed by the new signature
C12_ChildRunsDeeper ==
    \A k \in 2..Len(builders) :
        builders[k].pc # "cli" =>
            /\ builders[k].entered
            /\ builders[k].depth = builders[k - 1].depth + 1
            /\ builders[k].seen = builders[k].argv.signatures
            /\ Len(builders[k].seen) = Len(builders[k - 1].seen) + 1

\* C12 case: a child was spawned and its `run` command has been handled
C12_ChildHandled ==
    /\ Len(builders) = 2
    /\ builders[2].pc = "exited"
    /\ builders[2].argv.depth = builders[1].depth + 1

\* what C26 asks of the result res for a child that ended this way
MapsOutcome(ended, res) ==
    /\ res.delegated_to_child
    /\ ended \in {"PregnancyTimeout", "ChildBuilderFailed"} =>
           /\ Len(res.failure_details) = 1
           /\ res.failure_details[1].error_type = ended
           /\ res.failed = 1
           /\ res.total_tests = 1
           /\ ~res.all_passed
    /\ ended = "child_succeeded" =>
           /\ res.all_passed
           /\ res.failed = 0
           /\ res.child_workspace # ""
           /\ res.child_project_dir # ""

\* the way a child ends that subprocess.run reports as this
Outcome(timeout, returncode) ==
    IF timeout THEN "PregnancyTimeout"
    ELSE IF returncode # 0 THEN "ChildBuilderFailed"
    ELSE "child_succeeded"

\* C26: past its guards delegate_to_child_builder returns a single
\* PregnancyTimeout failure for a child that timed out, a single
\* ChildBuilderFailed failure for one that exited non-zero (failed = 1,
\* total_tests = 1, all_passed false in both), and a passing result that
\* names the child's workspace and project directory for exit code 0.  The
\* first conjunct is about the call that has just returned in the chain of
\* Builders, the second about the mapping for every outcome of a child.
C26_ChildOutcomeMapped ==
    /\ ( /\ builders # << >>
         /\ Last.pc = "exited"
         /\ preg_hist.outcome \in {"PregnancyTimeout", "ChildBuilderFailed",
                                   "child_succeeded"} )
       => MapsOutcome(preg_hist.outcome, Last.result)
    /\ \A timeout \in BOOLEAN, returncode \in 0..2 :
           MapsOutcome(Outcome(timeout, returncode),
                       child_result(timeout, returncode))

\* C26 witness: a child was spawned and exited non-zero, and the Builder
\* that delegated to it ended with the ChildBuilderFailed result
C26_Witness ==
    /\ Len(builders) = 1
    /\ Last.pc = "exited"
    /\ preg_hist.outcome = "ChildBuilderFailed"
    /\ preg_hist.spawned >= 1
    /\ Last.result.delegated_to_child
    /\ Last.result.failure_details[1].error_type = "ChildBuilderFailed"
    /\ Last.exit_code = 1

(***************************************************************************)
(* The capability gate: assess_capability.  Confidences and the threshold   *)
(* are counted in hundredths.                                               *)
(***************************************************************************)
\* Config.capability_threshold, 0.7
capability_threshold == 70

\* the hard checks of _run_preflight_checks that the environment can fail
HardChecks == {"anthropic_api_key", "project_dir_writable"}

\* _mcp_baseline_status: both servers need node and npm
_mcp_baseline_status(has_node_npm) ==
    [filesystem |-> has_node_npm, browser |-> has_node_npm]

\* what CapabilityChecker.check returns: _parse gives the fixed unavailable
\* assessment for a response that is not JSON, and clamps the confidence
Assessments ==
    { [capable |-> FALSE, confidence |-> 0, missing_capabilities |-> {},
       recommended_child_requirements |-> "", assessment_available |-> FALSE] }
    \cup
    [capable : BOOLEAN, confidence : {0, 69, 70, 71, 100},
     missing_capabilities : { {}, {"gpu"} },
     recommended_child_requirements : {"", "child"},
     assessment_available : {TRUE}]

NoAssessment == CHOOSE a \in Assessments : ~a.assessment_available

\* variant: the confidence has to exceed the threshold
decide_capable_StrictThreshold(llm_assessment, threshold) ==
    IF llm_assessment.assessment_available
    THEN llm_assessment.capable /\ llm_assessment.confidence > threshold
    ELSE TRUE

\* the capable flag of the LM branch
decide_capable(llm_assessment, threshold) ==
    IF llm_assessment.assessment_available
    THEN llm_assessment.capable /\ llm_assessment.confidence >= threshold
    ELSE TRUE

\* assess_capability; failed is the set of failed checks of
\* _run_preflight_checks, llm_assessment the answer the checker would give
assess_capability(failed, has_node_npm, llm_assessment, config) ==
    LET mcp_baseline == _mcp_baseline_status(has_node_npm)
        baseline_failures ==
            IF config.require_mcp_baseline
            THEN { "mcp_" \o key : key \in { k \in {"filesystem", "browser"} :
                                                ~mcp_baseline[k] } }
            ELSE {}
        hard_failures == (failed \cap HardChecks) \cup baseline_failures
    IN  IF hard_failures # {}
        THEN [capable |-> FALSE, confidence |-> 0,
              reasons |-> hard_failures,
              missing_capabilities |-> hard_failures,
              recommended_child_requirements |-> "default",
              checker_calls |-> 0]
        ELSE LET capable == decide_capable(llm_assessment, config.capability_threshold)
                 below == ~capable /\ llm_assessment.confidence < config.capability_threshold
                 reasons == IF ~llm_assessment.assessment_available
                            THEN {"could_not_parse", "assessment_unavailable"}
                            ELSE IF below /\ llm_assessment.assessment_available
                            THEN {"below_threshold"}
                            ELSE {}
                 recommended == llm_assessment.recommended_child_requirements
             IN  [capable |-> capable,
                  confidence |-> llm_assessment.confidence,
                  reasons |-> reasons,
                  missing_capabilities |-> llm_assessment.missing_capabilities,
                  recommended_child_requirements |->
                      IF recommended = "" /\ ~capable THEN "default" ELSE recommended,
                  checker_calls |-> 1]

NoCapHist ==
    [calls |-> 0, failed |-> {}, has_node_npm |-> FALSE,
     llm_assessment |-> NoAssessment,
     decision |-> [capable |-> FALSE, confidence |-> 0, reasons |-> {},
                   missing_capabilities |-> {},
                   recommended_child_requirements |-> "", checker_calls |-> 0]]

CapIdle ==
    /\ cap_config = [capability_threshold |-> capability_threshold,
                     require_mcp_baseline |-> FALSE]
    /\ cap_hist = NoCapHist

CapInit ==
    /\ cap_config \in [capability_threshold : {capability_threshold, 100},
                       require_mcp_baseline : BOOLEAN]
    /\ cap_hist = NoCapHist

\* one call of assess_capability in some environment
CallAssessCapability ==
    /\ \E failed \in SUBSET (HardChecks \cup {"pytest_available"}),
          has_node_npm \in BOOLEAN, llm_assessment \in Assessments :
           cap_hist' = [calls |-> 1, failed |-> failed,
                        has_node_npm |-> has_node_npm,
                        llm_assessment |-> llm_assessment,
                        decision |-> assess_capability(failed, has_node_npm,
                                                       llm_assessment, cap_config)]
    /\ UNCHANGED cap_config

\* whether a hard check of the latest call failed
HardFailed ==
    \/ cap_hist.failed \cap HardChecks # {}
    \/ cap_config.require_mcp_baseline /\ ~cap_hist.has_node_npm

\* C13: with a failed hard check the decision is not capable, carries a
\* synthesized child-requirements document and the checker is not called;
\* otherwise an unparseable answer gives capable with a reason recorded;
\* otherwise capable = (llm.capable and confidence >= capability_threshold)
C13_DecisionRule ==
    cap_hist.calls > 0 =>
        LET d == cap_hist.decision
            llm == cap_hist.llm_assessment
        IN  IF HardFailed
            THEN /\ ~d.capable
                 /\ d.recommended_child_requirements = "default"
                 /\ d.checker_calls = 0
            ELSE /\ d.checker_calls = 1
                 /\ IF ~llm.assessment_available
                    THEN d.capable /\ d.reasons # {}
                    ELSE d.capable =
                             (llm.capable /\
                              llm.confidence >= cap_config.capability_threshold)

\* C13 witness: no hard failure, and the checker reported capable with a
\* confidence equal to the threshold
C13_Witness ==
    /\ cap_hist.calls > 0
    /\ ~HardFailed
    /\ cap_hist.llm_assessment.assessment_available
    /\ cap_hist.llm_assessment.capable
    /\ cap_hist.llm_assessment.confidence = cap_config.capability_threshold
    /\ cap_hist.decision.capable

(***************************************************************************)
(* The sidecar bridge.  SidecarHTTPServer is a ThreadingHTTPServer: every   *)
(* POST /mcp is handled on a thread of its own, and all of them call        *)
(* MCPBridge.request on the one bridge, which wraps one stdio process.      *)
(***************************************************************************)
Handlers == {"h1", "h2"}

\* the ids of the JSON-RPC payloads that are posted; "none" is a payload
\* without an id
PayloadIds == {"1", "2", "none"}

\* the bodies that are posted: a JSON object, bytes that are not JSON, JSON
\* that is not an object, or a body under a Content-Length that is no number
Bodies == {"object", "not_json", "not_object", "bad_content_length"}

IdleHandler == [pc |-> "idle", id |-> "none", response |-> "none"]

\* in the output of the process: the beginning of a message whose end is
\* not written yet (a line without its newline, a body shorter than its
\* Content-Length)
Unfinished == "unfinished"

\* the last thing the process wrote is the beginning of a message
PartWritten ==
    proc_stdout # << >> /\ proc_stdout[Len(proc_stdout)] = Unfinished

BridgeIdle ==
    /\ _lock = "free"
    /\ handlers = [h \in Handlers |-> IdleHandler]
    /\ proc_stdin = << >>
    /\ proc_stdout = << >>
    /\ posts = 0
    /\ proc_exited = FALSE

\* the handler ends its request with this response; `with self._lock`
\* releases the lock on return and on raise
Responds(h, response, release) ==
    /\ handlers' = [handlers EXCEPT ![h] = [pc |-> "responded", id |-> @.id,
                                            response |-> response]]
    /\ _lock' = IF release THEN "free" ELSE _lock

\* do_POST's answer when bridge.request raised exc: status 200 and
\* {"jsonrpc": "2.0", "id": payload.get("id"), "error": {"code": -32000, ...}}
ErrorResponse(h, exc) ==
    [id |-> handlers[h].id, error |-> TRUE, status |-> 200,
     form |-> "jsonrpc_error", code |-> -32000, cause |-> exc]

\* do_POST's answer to a body it cannot use: status 400 and
\* {"ok": False, "error": "invalid_json: ..."} or "invalid_content_length"
BadRequestResponse(body) ==
    [id |-> "none", error |-> TRUE, status |-> 400,
     form |-> "ok_false", code |-> 0,
     cause |-> IF body = "bad_content_length" THEN "invalid_content_length"
               ELSE "invalid_json"]

\* the message of the wrapped process that answers the request
ProcessResponse(id) ==
    [id |-> id, error |-> FALSE, status |-> 200, form |-> "result",
     code |-> 0, cause |-> "none"]

\* do_POST: a request arrives and its body is read and parsed
do_POST(h) ==
    /\ handlers[h].pc = "idle"
    /\ posts < MaxPosts
    /\ posts' = posts + 1
    /\ \E body \in Bodies :
           IF body = "object"
           THEN /\ \E id \in PayloadIds :
                      handlers' = [handlers EXCEPT ![h] =
                          [pc |-> "request", id |-> id, response |-> "none"]]
                /\ UNCHANGED _lock
           ELSE Responds(h, BadRequestResponse(body), FALSE)
    /\ UNCHANGED << proc_stdin, proc_stdout, proc_exited >>

\* MCPBridge.request before the lock: an exited process raises, a payload
\* without an id raises
request_checks(h) ==
    /\ handlers[h].pc = "request"
    /\ IF proc_exited
       THEN Responds(h, ErrorResponse(h, "process_exited"), FALSE)
       ELSE IF handlers[h].id = "none"
       THEN Responds(h, ErrorResponse(h, "no_id"), FALSE)
       ELSE /\ handlers' = [handlers EXCEPT ![h].pc = "acquire"]
            /\ UNCHANGED _lock
    /\ UNCHANGED << proc_stdin, proc_stdout, posts, proc_exited >>

\* variant: the request goes on without the lock
acquire_NoLock(h) ==
    /\ handlers[h].pc = "acquire"
    /\ handlers' = [handlers EXCEPT ![h].pc = "write"]
    /\ UNCHANGED << _lock, proc_stdin, proc_stdout, posts, proc_exited >>

\* `with self._lock:` blocks until the lock is free
acquire(h) ==
    /\ handlers[h].pc = "acquire"
    /\ _lock = "free"
    /\ _lock' = h
    /\ handlers' = [handlers EXCEPT ![h].pc = "write"]
    /\ UNCHANGED << proc_stdin, proc_stdout, posts, proc_exited >>

\* _write_message(proc, payload); the write to the pipe of an exited
\* process raises
_write_message(h) ==
    /\ handlers[h].pc = "write"
    /\ IF proc_exited
       THEN /\ Responds(h, ErrorResponse(h, "broken_pipe"), _lock = h)
            /\ UNCHANGED proc_stdin
       ELSE /\ proc_stdin' = Append(proc_stdin, handlers[h].id)
            /\ handlers' = [handlers EXCEPT ![h].pc = "read"]
            /\ UNCHANGED _lock
    /\ UNCHANGED << proc_stdout, posts, proc_exited >>

\* one turn of the reading loop: the next message is returned if it carries
\* target_id and dropped otherwise; at the end of the output of an exited
\* process the read raises ("MCP server closed stdout").  When the pipe
\* holds the beginning of a message only, select reports it readable and
\* the handler enters stream.readline() or stream.read(n)
_read_message(h) ==
    /\ handlers[h].pc = "read"
    /\ IF proc_stdout # << >> /\ Head(proc_stdout) = Unfinished
       THEN /\ handlers' = [handlers EXCEPT ![h].pc = "blocked"]
            /\ UNCHANGED << proc_stdout, _lock >>
       ELSE IF proc_stdout # << >>
       THEN /\ proc_stdout' = Tail(proc_stdout)
            /\ IF Head(proc_stdout) = handlers[h].id
               THEN Responds(h, ProcessResponse(Head(proc_stdout)), _lock = h)
               ELSE UNCHANGED << handlers, _lock >>
       ELSE /\ proc_exited
            /\ Responds(h, ErrorResponse(h, "closed_stdout"), _lock = h)
            /\ UNCHANGED proc_stdout
    /\ UNCHANGED << proc_stdin, posts, proc_exited >>

\* `line = stream.readline()` and `chunk = stream.read(remaining_bytes)` on
\* the buffered pipe of the process: the call returns when the rest of the
\* message has arrived or the pipe is at its end, and not before; no
\* deadline applies inside it.  At the end of the pipe it returns what there
\* is: the reading goes on to its next deadline check, or json.loads raises
stream_readline(h) ==
    /\ handlers[h].pc = "blocked"
    /\ proc_stdout # << >>
    /\ IF Head(proc_stdout) # Unfinished
       THEN /\ handlers' = [handlers EXCEPT ![h].pc = "read"]
            /\ UNCHANGED << proc_stdout, _lock >>
       ELSE /\ proc_exited
            /\ proc_stdout' = Tail(proc_stdout)
            /\ \/ /\ handlers' = [handlers EXCEPT ![h].pc = "read"]
                  /\ UNCHANGED _lock
               \/ Responds(h, ErrorResponse(h, "malformed"), _lock = h)
    /\ UNCHANGED << proc_stdin, posts, proc_exited >>

\* the deadline passes while the handler waits for its response: the
\* checks of `remaining == 0` and the select calls that report nothing
request_times_out(h) ==
    /\ handlers[h].pc = "read"
    /\ Responds(h, ErrorResponse(h, "timeout"), _lock = h)
    /\ UNCHANGED << proc_stdin, proc_stdout, posts, proc_exited >>

\* _json_response(status, response): the handler thread ends
_json_response(h) ==
    /\ handlers[h].pc = "responded"
    /\ handlers' = [handlers EXCEPT ![h] = IdleHandler]
    /\ UNCHANGED << _lock, proc_stdin, proc_stdout, posts, proc_exited >>

\* the wrapped MCP process answers the oldest request it has not read yet
ProcessAnswers ==
    /\ ~proc_exited
    /\ ~PartWritten
    /\ proc_stdin # << >>
    /\ Len(proc_stdout) < MaxPending
    /\ proc_stdin' = Tail(proc_stdin)
    /\ proc_stdout' = Append(proc_stdout, Head(proc_stdin))
    /\ UNCHANGED << _lock, handlers, posts, proc_exited >>

\* the wrapped MCP process sends a notification, a message without an id
ProcessNotifies ==
    /\ ~proc_exited
    /\ ~PartWritten
    /\ Len(proc_stdout) < MaxPending
    /\ proc_stdout' = Append(proc_stdout, "none")
    /\ UNCHANGED << _lock, handlers, proc_stdin, posts, proc_exited >>

\* the wrapped MCP process writes the beginning of a message
ProcessWritesPart ==
    /\ ~proc_exited
    /\ ~PartWritten
    /\ Len(proc_stdout) < MaxPending
    /\ proc_stdout' = Append(proc_stdout, Unfinished)
    /\ UNCHANGED << _lock, handlers, proc_stdin, posts, proc_exited >>

\* the wrapped MCP process writes the rest of the message it began, a
\* notification
ProcessCompletesPart ==
    /\ ~proc_exited
    /\ PartWritten
    /\ proc_stdout' = [proc_stdout EXCEPT ![Len(proc_stdout)] = "none"]
    /\ UNCHANGED << _lock, handlers, proc_stdin, posts, proc_exited >>

\* the wrapped MCP process exits; what it wrote stays readable
BridgeProcessExits ==
    /\ ~proc_exited
    /\ proc_exited' = TRUE
    /\ UNCHANGED << _lock, handlers, proc_stdin, proc_stdout, posts >>

\* the handlers between writing their message and the end of their reading
InPipe == { h \in Handlers : handlers[h].pc \in {"read", "blocked"} }

\* C15: at most one request at a time is between writing its message to the
\* stdin of the wrapped process and finishing reading from its stdout, and
\* a response returned for a request carries that request's id
C15_Serialized ==
    /\ Cardinality(InPipe) <= 1
    /\ \A h \in Handlers :
           handlers[h].pc = "responded" => handlers[h].response.id = handlers[h].id

\* C15 witness: two requests are in progress at once; one has its response
\* from the process, the other holds the lock and reads, past a
\* notification that is still unread
C15_Witness ==
    /\ handlers["h1"].pc = "responded"
    /\ ~handlers["h1"].response.error
    /\ handlers["h2"].pc = "read"
    /\ _lock = "h2"
    /\ proc_stdout # << >>
    /\ Head(proc_stdout) = "none"

\* C22: every error answer to a POST /mcp (exited process, timeout,
\* unusable request body) is a JSON-RPC error object with code -32000 that
\* carries the id of the request.  Refuted: a body that is not a JSON
\* object, or a Content-Length that is no number, is answered with status
\* 400 and {"ok": False, "error": ...}.
C22_ErrorsAreJsonRpc ==
    \A h \in Handlers :
        handlers[h].pc = "responded" /\ handlers[h].response.error
        => /\ handlers[h].response.form = "jsonrpc_error"
           /\ handlers[h].response.code = -32000
           /\ handlers[h].response.id = handlers[h].id

\* C22's case: a POST /mcp with an invalid body has been answered
C22_InvalidBodyAnswered ==
    \E h \in Handlers :
        /\ handlers[h].pc = "responded"
        /\ handlers[h].response.cause = "invalid_json"

\* the handlers whose POST /mcp is inside MCPBridge.request
InRequest ==
    { h \in Handlers :
        handlers[h].pc \in {"request", "acquire", "write", "read", "blocked"} }

\* the handlers inside stream.readline() or stream.read(n)
ReadBlocked == { h \in Handlers : handlers[h].pc = "blocked" }

\* C40: a request that fails while it holds the lock releases it, so with
\* fairly scheduled handler threads every POST /mcp is eventually answered,
\* by a response or an error, and no request waits forever behind an
\* earlier one.  Refuted: a handler inside stream.readline() on the
\* beginning of a message is past every deadline check; while the process
\* lives and does not finish the message the handler keeps the lock, and
\* neither it nor the request waiting for the lock is ever answered.
C40_EveryPostAnswered ==
    \A h \in Handlers :
        (h \in InRequest) ~> (handlers[h].pc = "responded")

\* C40's case: one handler holds the lock inside stream.readline() while
\* the process lives, and the other handler's request waits for the lock
C40_BlockedInReadline ==
    /\ handlers["h1"].pc = "blocked"
    /\ _lock = "h1"
    /\ ~proc_exited
    /\ proc_stdout = << Unfinished >>
    /\ handlers["h2"].pc = "acquire"

\* C40, the part that holds: a request that ends, by a response or by an
\* error raised under the lock, does not hold the lock afterwards
C40_EndedRequestReleasesLock ==
    [][\A h \in Handlers :
          h \in InRequest /\ handlers'[h].pc = "responded" => _lock' # h]_vars

\* C40, the part that holds: every POST /mcp is eventually answered or
\* some handler is inside stream.readline()
C40_AnsweredUnlessReadBlocks ==
    \A h \in Handlers :
        (h \in InRequest)
            ~> (handlers[h].pc = "responded" \/ ReadBlocked # {})

(***************************************************************************)
(* The stdio JSON-RPC client: _send_jsonrpc on one MCP server process.      *)
(***************************************************************************)
\* a message of the server: the answer to request number `of`, carrying that
\* request's id, or a notification, which has no id
Answer(id, of) == [has_id |-> TRUE, id |-> id, of |-> of]
Notification == [has_id |-> FALSE, id |-> 0, of |-> 0]

NoCall == [active |-> FALSE, msg_id |-> 0, number |-> 0]

NoStdioHist ==
    [sent |-> << >>, end |-> "none", msg_id |-> 0, response |-> Notification,
     skipped |-> {}]

\* the module as imported: _next_id = 0
StdioIdle ==
    /\ _next_id = 0
    /\ pending = NoCall
    /\ server_stdin = << >>
    /\ server_stdout = << >>
    /\ stdio_hist = NoStdioHist

\* variant: any message that carries an id is taken for the response
id_matches_AnyId(response, msg_id) ==
    response.has_id

\* response.get("id") == msg_id
id_matches(response, msg_id) ==
    response.has_id /\ response.id = msg_id

\* _send_jsonrpc up to _write_message: the counter is advanced and the
\* request written
send_request ==
    /\ ~pending.active
    /\ Len(stdio_hist.sent) < MaxRequests
    /\ _next_id' = _next_id + 1
    /\ pending' = [active |-> TRUE, msg_id |-> _next_id + 1,
                   number |-> Len(stdio_hist.sent) + 1]
    /\ server_stdin' = Append(server_stdin,
                              [id |-> _next_id + 1,
                               number |-> Len(stdio_hist.sent) + 1])
    /\ stdio_hist' = [stdio_hist EXCEPT !.sent = Append(@, _next_id + 1),
                                        !.end = "none", !.skipped = {}]
    /\ UNCHANGED server_stdout

\* one turn of the loop of _send_jsonrpc: the message read is returned if
\* its id is msg_id and ignored otherwise
read_response ==
    /\ pending.active
    /\ server_stdout # << >>
    /\ server_stdout' = Tail(server_stdout)
    /\ IF id_matches(Head(server_stdout), pending.msg_id)
       THEN /\ pending' = NoCall
            /\ stdio_hist' = [stdio_hist EXCEPT !.end = "returned",
                                                !.msg_id = pending.msg_id,
                                                !.response = Head(server_stdout)]
       ELSE /\ stdio_hist' =
                   [stdio_hist EXCEPT !.skipped =
                        @ \cup {IF Head(server_stdout).has_id THEN "other_id"
                                ELSE "notification"}]
            /\ UNCHANGED pending
    /\ UNCHANGED << _next_id, server_stdin >>

\* the deadline passes: TimeoutError
deadline_passes ==
    /\ pending.active
    /\ pending' = NoCall
    /\ stdio_hist' = [stdio_hist EXCEPT !.end = "TimeoutError",
                                        !.msg_id = pending.msg_id]
    /\ UNCHANGED << _next_id, server_stdin, server_stdout >>

\* the MCP server answers the oldest request it has not read, however late
ServerAnswers ==
    /\ server_stdin # << >>
    /\ Len(server_stdout) < MaxPending
    /\ server_stdin' = Tail(server_stdin)
    /\ server_stdout' = Append(server_stdout,
                               Answer(Head(server_stdin).id,
                                      Head(server_stdin).number))
    /\ UNCHANGED << _next_id, pending, stdio_hist >>

\* the MCP server sends a notification
ServerNotifies ==
    /\ Len(server_stdout) < MaxPending
    /\ server_stdout' = Append(server_stdout, Notification)
    /\ UNCHANGED << _next_id, pending, server_stdin, stdio_hist >>

MaxPathLen == 3

Dirs == {"", "..", "src", "tests", "pkg"}
FileNames == {"a.py", "test_a.py"}

\* the names _FILENAME_COMMENT_RE and _FENCE_FILENAME_RE can capture in a
\* fenced block: [\w./-]+\.\w+ admits "/" and "." anywhere
RawNames ==
    { Append(d, f) : d \in UNION { [1..n -> Dirs] : n \in 0..(MaxPathLen - 1) },
                     f \in FileNames }

\* the names of the blocks of one response: one block or two
Responses == { {a, b} : a, b \in RawNames }

\* (?:prefix/)? of the patterns, `candidate.startswith("tests/")` and
\* `normalized.startswith(root_prefix)`: one leading component is dropped
StripPrefix(name, prefix) ==
    IF Len(name) > 1 /\ name[1] = prefix THEN Tail(name) ELSE name

\* str.lstrip("/")
RECURSIVE LStrip(_)
LStrip(name) ==
    IF Len(name) > 1 /\ name[1] = "" THEN LStrip(Tail(name)) ELSE name

\* Programmer._extract_files_from_response: the key of a block is the
\* captured name, with one leading "src/" left out by the pattern
_extract_files_from_response(response) ==
    { StripPrefix(raw, "src") : raw \in response }

\* `if not path.name.startswith("test_")`: the name gets the prefix
TestName(name) == IF name = "a.py" THEN "test_a.py" ELSE name

\* TestDesigner._normalize_test_filename
_normalize_test_filename(raw) ==
    LET candidate == LStrip(StripPrefix(raw, "tests"))
        parts == SelectSeq(candidate, LAMBDA part : part \notin {"", ".", ".."})
    IN  [k \in 1..Len(parts) |->
            IF k = Len(parts) THEN TestName(parts[k]) ELSE parts[k]]

\* TestDesigner._parse_test_response
_parse_test_response(response) ==
    { _normalize_test_filename(raw) : raw \in response }

\* the file a path names once the file system has followed its components;
\* a ".." at the top stays, which puts the file above project_dir
RECURSIVE Resolve(_, _)
Resolve(done, rest) ==
    IF rest = << >> THEN done
    ELSE IF Head(rest) \in {"", "."} THEN Resolve(done, Tail(rest))
    ELSE IF Head(rest) = ".." /\ done # << >> /\ done[Len(done)] # ".."
         THEN Resolve(SubSeq(done, 1, Len(done) - 1), Tail(rest))
    ELSE Resolve(Append(done, Head(rest)), Tail(rest))

\* write_files(f"{project_dir}/{base}", files): dest = base / normalized
write_files(base, files) ==
    { Resolve(<< >>, << "project_dir", base >>
                     \o StripPrefix(LStrip(filename), base)) :
        filename \in files }

FilesIdle ==
    /\ extracted = [kind |-> "none", keys |-> {}, written |-> FALSE]
    /\ persisted = {}

\* programmer.generate / refine parse a response into the code FileSet
ExtractCodeFiles ==
    /\ extracted.kind = "none"
    /\ \E response \in Responses :
           extracted' = [kind |-> "src",
                         keys |-> _extract_files_from_response(response),
                         written |-> FALSE]
    /\ UNCHANGED persisted

\* test_designer.generate_tests / adapt_tests parse a response into the
\* test FileSet
ParseTestFiles ==
    /\ extracted.kind = "none"
    /\ \E response \in Responses :
           extracted' = [kind |-> "tests",
                         keys |-> _parse_test_response(response),
                         written |-> FALSE]
    /\ UNCHANGED persisted

\* step 5 of run_task writes the FileSet under project_dir/src or
\* project_dir/tests
WriteOutputFiles ==
    /\ extracted.kind # "none"
    /\ ~extracted.written
    /\ persisted' = write_files(extracted.kind, extracted.keys)
    /\ extracted' = [extracted EXCEPT !.written = TRUE]

\* the destination lies under project_dir/<base>
Under(dest, base) ==
    /\ Len(dest) > 2
    /\ SubSeq(dest, 1, 2) = << "project_dir", base >>

\* C23: no key of a FileSet parsed from an LM response starts with "/" or
\* has a ".." component, and every file written in step 5 lies under
\* project_dir/src or project_dir/tests.  Refuted for the code FileSet:
\* _extract_files_from_response keeps the captured name as it is, and
\* write_files strips leading slashes only.
C23_KeysStayInside ==
    /\ \A key \in extracted.keys :
           /\ key[1] # ""
           /\ \A k \in 1..Len(key) : key[k] # ".."
    /\ \A dest \in persisted : Under(dest, extracted.kind)

\* C23's case: a code block named "../a.py" was extracted under that key
\* and step 5 wrote it to project_dir/a.py, outside project_dir/src
C23_WrittenOutsideSrc ==
    /\ extracted.kind = "src"
    /\ extracted.written
    /\ << "..", "a.py" >> \in extracted.keys
    /\ << "project_dir", "a.py" >> \in persisted

(***************************************************************************)
(* The sandbox of run_tests.  Every call makes a fresh temp directory with  *)
(* mkdtemp; tmp_dirs[k] tells whether the directory of the k-th call is     *)
(* still there.                                                             *)
(***************************************************************************)
\* the run_tests calls of one process
MaxRuns == 3

\* what a call can meet: an exception before pytest has produced anything
\* (a file that cannot be written, a pytest that cannot be started), or one
\* of the pytest runs
SandboxRuns ==
    { [raised |-> TRUE, pytest |-> NoPytest] } \cup
    [raised : {FALSE}, pytest : PytestOutputs]

\* variant: a kept sandbox does not depend on the result
should_keep_WhateverResult(keep_sandbox_on_failure, produced, result_payload) ==
    keep_sandbox_on_failure /\ produced

\* `should_keep` of run_tests' finally block; `produced` is
\* `result_payload is not None`
should_keep(keep_sandbox_on_failure, produced, result_payload) ==
    /\ keep_sandbox_on_failure
    /\ produced
    /\ ~result_payload.all_passed

NoSandboxHist ==
    [keep_sandbox_on_failure |-> FALSE, raised |-> FALSE, returned |-> FALSE,
     pytest |-> NoPytest, result |-> NoResults]

\* no run_tests call has been made
SandboxIdle ==
    /\ tmp_dirs = << >>
    /\ sandbox_hist = NoSandboxHist

\* run_tests(code_files, test_files, timeout, keep_sandbox_on_failure):
\* mkdtemp, the files, pytest, the result, and the finally block
CallRunTests ==
    /\ Len(tmp_dirs) < MaxRuns
    /\ \E keep_sandbox_on_failure \in BOOLEAN, met \in SandboxRuns :
           LET produced == ~met.raised
               result_payload == IF produced THEN run_tests(met.pytest)
                                 ELSE NoResults
           IN  /\ tmp_dirs' =
                      Append(tmp_dirs,
                             should_keep(keep_sandbox_on_failure, produced,
                                         result_payload))
               /\ sandbox_hist' =
                      [keep_sandbox_on_failure |-> keep_sandbox_on_failure,
                       raised |-> met.raised, returned |-> produced,
                       pytest |-> met.pytest, result |-> result_payload]

\* C33: after run_tests returns or raises, its temp directory still exists
\* if and only if keep_sandbox_on_failure is set and a non-passing result
\* (the timeout result included) was produced; the directories of earlier
\* calls are as they were left
C33_SandboxKeptOnlyOnFailure ==
    [][ Len(tmp_dirs') = Len(tmp_dirs) + 1 =>
          /\ tmp_dirs'[Len(tmp_dirs')] =
                 ( /\ sandbox_hist'.keep_sandbox_on_failure
                   /\ sandbox_hist'.returned
                   /\ ~sandbox_hist'.result.all_passed )
          /\ sandbox_hist'.pytest.timeout => ~sandbox_hist'.result.all_passed
          /\ sandbox_hist'.raised => ~tmp_dirs'[Len(tmp_dirs')]
          /\ SubSeq(tmp_dirs', 1, Len(tmp_dirs)) = tmp_dirs ]_vars

\* C33 witness: after a call that left nothing, a call with
\* keep_sandbox_on_failure set has timed out, returned the timeout result
\* and left its directory
C33_Witness ==
    /\ tmp_dirs = << FALSE, TRUE >>
    /\ sandbox_hist.keep_sandbox_on_failure
    /\ sandbox_hist.returned
    /\ sandbox_hist.pytest.timeout
    /\ ~sandbox_hist.result.all_passed

(***************************************************************************)
(* The specifications.                                                      *)
(***************************************************************************)
Init == OrchInit /\ ExecIdle /\ SideIdle /\ PregIdle /\ CapIdle /\ BridgeIdle
    /\ StdioIdle /\ FilesIdle /\ SandboxIdle

Next ==
    \/ AssessCapability /\ UNCHANGED exceptOrch
    \/ DelegateToChild /\ UNCHANGED exceptOrch
    \/ McpBootstrap /\ UNCHANGED exceptOrch
    \/ SubmitJobs /\ UNCHANGED exceptOrch
    \/ DesignStart /\ UNCHANGED exceptOrch
    \/ DesignFinish /\ UNCHANGED exceptOrch
    \/ CodeStart /\ UNCHANGED exceptOrch
    \/ CodeFinish /\ UNCHANGED exceptOrch
    \/ JoinDesign /\ UNCHANGED exceptOrch
    \/ JoinCode /\ UNCHANGED exceptOrch
    \/ PoolExit /\ UNCHANGED exceptOrch
    \/ AdaptTests /\ UNCHANGED exceptOrch
    \/ RunAll /\ UNCHANGED exceptOrch
    \/ Refine /\ UNCHANGED exceptOrch
    \/ Readapt /\ UNCHANGED exceptOrch
    \/ WriteOutputs /\ UNCHANGED exceptOrch
    \/ Finish /\ UNCHANGED exceptOrch
    \/ run /\ UNCHANGED exceptOrch

Spec == Init /\ [][Next]_vars

InitExecutor == ExecInit /\ OrchIdle /\ SideIdle /\ PregIdle /\ CapIdle /\ BridgeIdle
    /\ StdioIdle /\ FilesIdle /\ SandboxIdle

NextExecutor ==
    \/ CallRunAll /\ UNCHANGED exceptExec
    \/ CallRunMcpTests /\ UNCHANGED exceptExec
    \/ CallRun /\ UNCHANGED exceptExec

SpecExecutor == InitExecutor /\ [][NextExecutor]_vars

InitSidecars == SideInit /\ OrchIdle /\ ExecIdle /\ PregIdle /\ CapIdle /\ BridgeIdle
    /\ StdioIdle /\ FilesIdle /\ SandboxIdle

NextSidecars ==
    \/ CallInstallIfNeeded /\ UNCHANGED exceptSide
    \/ CallLaunchSidecar /\ UNCHANGED exceptSide
    \/ CallEnsureRunning /\ UNCHANGED exceptSide
    \/ CallStopAll /\ UNCHANGED exceptSide
    \/ ProcessExits /\ UNCHANGED exceptSide

SpecSidecars == InitSidecars /\ [][NextSidecars]_vars

InitPregnancy == PregInit /\ OrchIdle /\ ExecIdle /\ SideIdle /\ CapIdle /\ BridgeIdle
    /\ StdioIdle /\ FilesIdle /\ SandboxIdle

NextPregnancy ==
    \/ BuildLocally /\ UNCHANGED exceptPreg
    \/ Delegate /\ UNCHANGED exceptPreg
    \/ run_command /\ UNCHANGED exceptPreg
    \/ ChildReturns /\ UNCHANGED exceptPreg

SpecPregnancy == InitPregnancy /\ [][NextPregnancy]_vars

InitCapability == CapInit /\ OrchIdle /\ ExecIdle /\ SideIdle /\ PregIdle /\ BridgeIdle
    /\ StdioIdle /\ FilesIdle /\ SandboxIdle

NextCapability ==
    \/ CallAssessCapability /\ UNCHANGED exceptCap

SpecCapability == InitCapability /\ [][NextCapability]_vars

InitBridge ==
    BridgeIdle /\ OrchIdle /\ ExecIdle /\ SideIdle /\ PregIdle /\ CapIdle
    /\ StdioIdle /\ FilesIdle /\ SandboxIdle

NextBridge ==
    \/ (\E h \in Handlers : do_POST(h)) /\ UNCHANGED exceptBridge
    \/ (\E h \in Handlers : request_checks(h)) /\ UNCHANGED exceptBridge
    \/ (\E h \in Handlers : acquire(h)) /\ UNCHANGED exceptBridge
    \/ (\E h \in Handlers : _write_message(h)) /\ UNCHANGED exceptBridge
    \/ (\E h \in Handlers : _read_message(h)) /\ UNCHANGED exceptBridge
    \/ (\E h \in Handlers : stream_readline(h)) /\ UNCHANGED exceptBridge
    \/ (\E h \in Handlers : request_times_out(h)) /\ UNCHANGED exceptBridge
    \/ (\E h \in Handlers : _json_response(h)) /\ UNCHANGED exceptBridge
    \/ ProcessAnswers /\ UNCHANGED exceptBridge
    \/ ProcessNotifies /\ UNCHANGED exceptBridge
    \/ ProcessWritesPart /\ UNCHANGED exceptBridge
    \/ ProcessCompletesPart /\ UNCHANGED exceptBridge
    \/ BridgeProcessExits /\ UNCHANGED exceptBridge

SpecBridge == InitBridge /\ [][NextBridge]_vars

\* one step of the thread that handles h's request
HandlerStep(h) ==
    /\ \/ request_checks(h)
       \/ acquire(h)
       \/ _write_message(h)
       \/ _read_message(h)
       \/ stream_readline(h)
       \/ request_times_out(h)
       \/ _json_response(h)
    /\ UNCHANGED exceptBridge

\* the handler threads are scheduled fairly, and the clock of
\* time.monotonic() reaches the deadline of a request that keeps reading;
\* the wrapped process and the clients owe nothing
SpecBridgeFair ==
    /\ InitBridge
    /\ [][NextBridge]_vars
    /\ \A h \in Handlers :
           /\ WF_vars(HandlerStep(h))
           /\ WF_vars(request_times_out(h) /\ UNCHANGED exceptBridge)

InitStdio ==
    StdioIdle /\ OrchIdle /\ ExecIdle /\ SideIdle /\ PregIdle /\ CapIdle
    /\ BridgeIdle /\ FilesIdle /\ SandboxIdle

NextStdio ==
    \/ send_request /\ UNCHANGED exceptStdio
    \/ read_response /\ UNCHANGED exceptStdio
    \/ deadline_passes /\ UNCHANGED exceptStdio
    \/ ServerAnswers /\ UNCHANGED exceptStdio
    \/ ServerNotifies /\ UNCHANGED exceptStdio

SpecStdio == InitStdio /\ [][NextStdio]_vars

InitFiles ==
    FilesIdle /\ OrchIdle /\ ExecIdle /\ SideIdle /\ PregIdle /\ CapIdle
    /\ BridgeIdle /\ StdioIdle /\ SandboxIdle

NextFiles ==
    \/ ExtractCodeFiles /\ UNCHANGED exceptFiles
    \/ ParseTestFiles /\ UNCHANGED exceptFiles
    \/ WriteOutputFiles /\ UNCHANGED exceptFiles

SpecFiles == InitFiles /\ [][NextFiles]_vars

InitSandbox ==
    SandboxIdle /\ OrchIdle /\ ExecIdle /\ SideIdle /\ PregIdle /\ CapIdle
    /\ BridgeIdle /\ StdioIdle /\ FilesIdle

NextSandbox ==
    \/ CallRunTests /\ UNCHANGED exceptSandbox

SpecSandbox == InitSandbox /\ [][NextSandbox]_vars

====
